---- MODULE Spec2Model ----
(***************************************************************************)
(* Session Process Orchestrator of claude-greyzone (Go server).            *)
(*                                                                         *)
(*   Process Registry   src/handlers/sessions.go  (activeProcesses)        *)
(*   Session Ledger     src/unnamed/part_001      (StateManager)           *)
(*   Output Hub         src/handlers/websocket.go (SessionHub)             *)
(*   Run Coordinator    handleWSChat / executeChatStream / InterruptChat   *)
(*                                                                         *)
(* Every goroutine is a little state machine; one action is one critical   *)
(* section (one lock acquisition) or one blocking call of the Go code.     *)
(***************************************************************************)
EXTENDS Integers, Sequences, FiniteSets, TLC

\* ------------------------------------------------------------------ bounds
MaxRuns == 3
CoordRuns == 2
MaxInts == 1
MaxReaders == 1
MaxConns == 2
MaxLines == 2
MaxClients == 2
MaxPids == 3
MaxTabIds == 3
MaxMsgs == 2
MaxTasks == 2

Runs == 1..MaxRuns
Ints == 1..MaxInts
Readers == 1..MaxReaders
Conns == 1..MaxConns
StateClients == 1..MaxClients

\* the nil *int of SessionState.ProcessID; real ids start at 1
NoPid == 0
\* `Channel: make(chan []byte, 10)`
ChannelDepth == 10
SessionIds == {"s1", "s2"}

VARIABLES
    activeProcesses,    \* registry: processID -> [SessionID, Cmd]
    processCounter,     \* registry: last id handed out
    stateSessions,      \* ledger: sm.state.Sessions, sessionId -> SessionState
    clients,            \* change broadcaster: client id -> queued snapshots
    bcastPending,       \* number of spawned, not yet run `go sm.broadcast()`
    bcastData,          \* broadcasts that have marshalled the state, to deliver
    sse,                \* SubscribeState handlers
    hubSessions,        \* hub: sessionID -> set of connections
    pendingPrompts,     \* hub: sessionID -> prompt
    accumulatedContent, \* hub: sessionID -> sequence of chunks
    stalled,            \* connection: the peer does not take any bytes
    recv,               \* connection: what the peer has been written (history)
    observing,          \* whether recv is recorded in this specification
    proc,               \* OS process of each run (exec.Cmd)
    req,                \* the request of each run: kind, session, connection
    pc,                 \* handleWSChat / executeChatStream: position
    loc,                \* handleWSChat / executeChatStream: locals
    ptr,                \* IsSessionLoading: the *SessionState it holds
    bc,                 \* SessionHub.Broadcast in progress, per goroutine
    rd,                 \* stdout reader goroutine of each run
    rpl,                \* replay goroutines spawned by Subscribe
    sub,                \* ChatWebSocket of each connection: its state and its
                        \* subscribedSessions
    intr,               \* interrupt handlers
    gs,                 \* getState callers
    tabs,               \* the tab-managing StateManager: sm.state
    cl,                 \* the browser client: App of one tab
    task                \* goroutines seen by the locks they take and release

registryVars == <<activeProcesses, processCounter>>
clientVars == <<clients, bcastData, sse>>
ledgerVars == <<stateSessions, bcastPending, clientVars>>
hubVars == <<hubSessions, pendingPrompts, accumulatedContent>>
envVars == <<observing, tabs, cl, task>>
connVars == <<stalled, recv, envVars>>
runVars == <<req, pc, loc, ptr>>
goVars == <<bc, rd, rpl, sub>>
vars == <<registryVars, ledgerVars, hubVars, connVars, proc, runVars, goVars,
          intr, gs>>

Remove(f, k) == [x \in DOMAIN f \ {k} |-> f[x]]

\* ---------------------------------------------------------------- registry

\* an allocator that hands out the lowest id not in the registry
lowestFreeID ==
    CHOOSE n \in 1..(MaxPids + MaxRuns + 1) :
        /\ n \notin DOMAIN activeProcesses
        /\ \A m \in 1..(n - 1) : m \in DOMAIN activeProcesses

\* getNextProcessID: processCounter++ under counterLock
getNextProcessID == processCounter + 1

\* registerProcess: activeProcesses[id] = info
registerProcess(id, info) == (id :> info) @@ activeProcesses

\* unregisterProcess: delete(activeProcesses, id); deleting an absent key is a no-op
unregisterProcess(id) == Remove(activeProcesses, id)

\* the snapshot loop of getState and IsSessionLoading: the set of registered ids
activeProcessSnapshot == DOMAIN activeProcesses

\* ------------------------------------------------------------------ ledger

NewSessionState == [IsLoading |-> FALSE, ProcessID |-> NoPid]

\* a setSessionLoading without the clean-up of an idle record with no owner
setSessionLoadingKeep(S, sessionId, loading) ==
    IF sessionId = "" THEN S
    ELSE LET S1 == IF sessionId \in DOMAIN S THEN S
                   ELSE (sessionId :> NewSessionState) @@ S
         IN  [S1 EXCEPT ![sessionId].IsLoading = loading]

\* StateManager.setSessionLoading
setSessionLoading(S, sessionId, loading) ==
    IF sessionId = "" THEN S
    ELSE LET S1 == IF sessionId \in DOMAIN S THEN S
                   ELSE (sessionId :> NewSessionState) @@ S
             S2 == [S1 EXCEPT ![sessionId].IsLoading = loading]
         IN  IF ~loading /\ S2[sessionId].ProcessID = NoPid
             THEN Remove(S2, sessionId) ELSE S2

\* a setSessionProcessID whose clean-up is skipped for a record it has created
setSessionProcessIDNew(S, sessionId, processID) ==
    IF sessionId = "" THEN S
    ELSE IF sessionId \notin DOMAIN S
    THEN (sessionId :> [NewSessionState EXCEPT !.ProcessID = processID]) @@ S
    ELSE LET S2 == [S EXCEPT ![sessionId].ProcessID = processID]
         IN  IF ~S2[sessionId].IsLoading /\ processID = NoPid
             THEN Remove(S2, sessionId) ELSE S2

\* StateManager.setSessionProcessID
setSessionProcessID(S, sessionId, processID) ==
    IF sessionId = "" THEN S
    ELSE LET S1 == IF sessionId \in DOMAIN S THEN S
                   ELSE (sessionId :> NewSessionState) @@ S
             S2 == [S1 EXCEPT ![sessionId].ProcessID = processID]
         IN  IF ~S2[sessionId].IsLoading /\ processID = NoPid
             THEN Remove(S2, sessionId) ELSE S2

\* a reconcile that goes by the busy flag instead of the owner
sessionsToCleanBusy(S, snapshot) ==
    {s \in DOMAIN S : S[s].IsLoading /\ S[s].ProcessID \notin snapshot}

\* the sessions getState finds stale: an owner that is not in the snapshot
sessionsToClean(S, snapshot) ==
    {s \in DOMAIN S : S[s].ProcessID # NoPid /\ S[s].ProcessID \notin snapshot}

\* the locked section of getState: stale sessions are reset and deleted
reconcile(S, snapshot) ==
    [s \in DOMAIN S \ sessionsToClean(S, snapshot) |-> S[s]]

\* `go sm.broadcast()`: where no client ever subscribes the goroutine
\* delivers nothing and is left out
spawnBroadcast == IF \A k \in StateClients : sse[k].pc = "none"
                  THEN bcastPending ELSE bcastPending + 1

\* A *SessionState held outside the lock names the object, not the map slot:
\* once the record is deleted the holder keeps reading the deleted object.
staleAfter(S) ==
    [x \in Runs |-> IF ptr[x] = "live" /\ req[x].sess \in DOMAIN stateSessions
                       /\ req[x].sess \notin DOMAIN S
                    THEN "stale" ELSE ptr[x]]

\* a mutation of the ledger by a setter (always followed by go sm.broadcast())
LedgerSet(S) ==
    /\ stateSessions' = S
    /\ bcastPending' = spawnBroadcast
    /\ ptr' = staleAfter(S)
    /\ UNCHANGED clientVars


\* --------------------------------------------------------------------- hub

\* what a connection's peer sees: conn.WriteJSON appends to its stream; on a
\* closed connection it returns an error (which no caller looks at)
Deliver(c, m) ==
    IF observing /\ sub[c].st # "closed" THEN [recv EXCEPT ![c] = Append(@, m)]
    ELSE recv

\* SessionHub.Subscribe (one critical section): the connection joins the set,
\* and two goroutines are spawned: one sends the pending prompt, one replays
\* the chunks accumulated so far (the slice as it is at this instant).
Subscribe(sessionID, ws, k) ==
    /\ hubSessions' = [hubSessions EXCEPT ![sessionID] = @ \cup {ws}]
    /\ rpl' = [rpl EXCEPT ![k] =
                 [conn |-> ws,
                  prompt |-> IF sessionID \in DOMAIN pendingPrompts
                             THEN <<pendingPrompts[sessionID]>> ELSE <<>>,
                  chunks |-> IF sessionID \in DOMAIN accumulatedContent
                             THEN accumulatedContent[sessionID] ELSE <<>>]]

\* SessionHub.Unsubscribe: the connection leaves the set (an empty set is
\* deleted from the map; reading an absent key gives the empty set as well)
Unsubscribe(H, sessionID, ws) == [H EXCEPT ![sessionID] = @ \ {ws}]

\* SessionHub.SetPendingPrompt
SetPendingPrompt(sessionID, prompt) == (sessionID :> prompt) @@ pendingPrompts

\* SessionHub.ClearPendingPrompt
ClearPendingPrompt(sessionID) == Remove(pendingPrompts, sessionID)

\* SessionHub.AppendContent
AppendContent(sessionID, data) ==
    (sessionID :> (IF sessionID \in DOMAIN accumulatedContent
                   THEN Append(accumulatedContent[sessionID], data)
                   ELSE <<data>>)) @@ accumulatedContent

\* the chunks of the session are left in place
KeepAccumulatedContent(sessionID) == accumulatedContent

\* SessionHub.ClearAccumulatedContent
ClearAccumulatedContent(sessionID) == Remove(accumulatedContent, sessionID)

\* ----------------------------------------------------------- OS processes

\* cmd.Process.Kill(): a running process dies, a zombie stays as it is, and
\* a process whose Wait has returned yields "os: process already finished"
KillFails(r) == proc[r].state = "reaped"
Kill(r) == IF proc[r].state = "running"
           THEN [proc EXCEPT ![r].state = "exited", ![r].code = -1]
           ELSE proc

\* the process writes one more line to its stdout pipe
ProcEmit(r) ==
    /\ proc[r].state = "running"
    /\ proc[r].emitted < MaxLines
    /\ proc' = [proc EXCEPT ![r].emitted = @ + 1]
    /\ UNCHANGED <<registryVars, ledgerVars, hubVars, connVars, runVars, goVars,
                   intr, gs>>

\* the process writes one more line to its stderr pipe
ProcEmitErr(r) ==
    /\ proc[r].state = "running"
    /\ proc[r].errs < MaxLines
    /\ proc' = [proc EXCEPT ![r].errs = @ + 1]
    /\ UNCHANGED <<registryVars, ledgerVars, hubVars, connVars, runVars, goVars,
                   intr, gs>>

\* the process exits on its own with the given exit status
ProcExit(r, code) ==
    /\ proc[r].state = "running"
    /\ proc' = [proc EXCEPT ![r].state = "exited", ![r].code = code]
    /\ UNCHANGED <<registryVars, ledgerVars, hubVars, connVars, runVars, goVars,
                   intr, gs>>

\* ------------------------------------------------------------ connections

\* the peer stops reading: conn.WriteJSON blocks from now on (no write deadline)
Stall(c) ==
    /\ ~stalled[c]
    /\ stalled' = [stalled EXCEPT ![c] = TRUE]
    /\ UNCHANGED <<registryVars, ledgerVars, hubVars, recv, envVars, proc,
                   runVars, goVars, intr, gs>>

\* the peer reads again
Resume(c) ==
    /\ stalled[c]
    /\ stalled' = [stalled EXCEPT ![c] = FALSE]
    /\ UNCHANGED <<registryVars, ledgerVars, hubVars, recv, envVars, proc,
                   runVars, goVars, intr, gs>>

\* -------------------------------------------- handleWSChat/executeChatStream

IsWS(r) == req[r].kind = "ws"

\* a run is Running: its process is alive and registered and its handler is
\* past the ledger update and has not begun its completion
Running(a) ==
    /\ pc[a] \in {"subscribe", "setprompt", "bprompt", "sendpid", "wait"}
    /\ proc[a].state = "running"
    /\ loc[a].pid \in DOMAIN activeProcesses

\* the request arrives; IsSessionLoading takes its registry snapshot
StartRun(r) ==
    /\ pc[r] = "idle"
    /\ req[r].kind # "none"
    /\ IsWS(r) => sub[req[r].conn].st # "closed"
    /\ IF req[r].sess = ""
       THEN /\ pc' = [pc EXCEPT ![r] = "spawn"]
            /\ UNCHANGED loc
       ELSE /\ pc' = [pc EXCEPT ![r] = "isl_get"]
            /\ loc' = [loc EXCEPT ![r].snap = activeProcessSnapshot,
                         ![r].atIssue = {a \in Runs \ {r} :
                              req[a].sess = req[r].sess /\ Running(a)}]
    /\ UNCHANGED <<registryVars, ledgerVars, hubVars, connVars, proc, req, ptr,
                   goVars, intr, gs>>

\* getSessionState: the pointer to the record, or nil
ISLGet(r) ==
    /\ pc[r] = "isl_get"
    /\ IF req[r].sess \in DOMAIN stateSessions
       THEN /\ ptr' = [ptr EXCEPT ![r] = "live"]
            /\ pc' = [pc EXCEPT ![r] = "isl_rdl"]
       ELSE /\ pc' = [pc EXCEPT ![r] = "spawn"]
            /\ UNCHANGED ptr
    /\ UNCHANGED <<registryVars, ledgerVars, hubVars, connVars, proc, req, loc,
                   goVars, intr, gs>>

\* the fields of the object the pointer names, read without the lock
ObjLoading(r) == ptr[r] = "live" /\ stateSessions[req[r].sess].IsLoading
ObjProcessID(r) == IF ptr[r] = "live"
                   THEN stateSessions[req[r].sess].ProcessID ELSE NoPid

\* `session.IsLoading && ...`
ISLReadLoading(r) ==
    /\ pc[r] = "isl_rdl"
    /\ pc' = [pc EXCEPT ![r] = IF ObjLoading(r) THEN "isl_rdp" ELSE "isl_ret"]
    /\ UNCHANGED <<registryVars, ledgerVars, hubVars, connVars, proc, req, loc,
                   ptr, goVars, intr, gs>>

\* the owner IsSessionLoading compares with its snapshot
IsStale(processID, snapshot) == processID # NoPid /\ processID \notin snapshot

\* `... && session.ProcessID != nil`, `!activeProcessSnapshot[*session.ProcessID]`
ISLReadProcessID(r) ==
    /\ pc[r] = "isl_rdp"
    /\ pc' = [pc EXCEPT ![r] = IF IsStale(ObjProcessID(r), loc[r].snap)
                               THEN "isl_fix1" ELSE "isl_ret"]
    /\ UNCHANGED <<registryVars, ledgerVars, hubVars, connVars, proc, req, loc,
                   ptr, goVars, intr, gs>>

\* "Process finished but state wasn't updated - fix it now"
ISLFix1(r) ==
    /\ pc[r] = "isl_fix1"
    /\ LedgerSet(setSessionLoading(stateSessions, req[r].sess, FALSE))
    /\ pc' = [pc EXCEPT ![r] = "isl_fix2"]
    /\ UNCHANGED <<registryVars, hubVars, connVars, proc, req, loc, goVars,
                   intr, gs>>

ISLFix2(r) ==
    /\ pc[r] = "isl_fix2"
    /\ stateSessions' = setSessionProcessID(stateSessions, req[r].sess, NoPid)
    /\ bcastPending' = spawnBroadcast
    /\ ptr' = [staleAfter(stateSessions') EXCEPT ![r] = "none"]
    /\ pc' = [pc EXCEPT ![r] = "spawn"]
    /\ UNCHANGED <<registryVars, clientVars, hubVars, connVars, proc, req, loc,
                   goVars, intr, gs>>

\* `return session.IsLoading`; true is the busy rejection
ISLReturn(r) ==
    /\ pc[r] = "isl_ret"
    /\ IF ObjLoading(r)
       THEN /\ pc' = [pc EXCEPT ![r] = "errsend"]
            /\ loc' = [loc EXCEPT ![r].result = "busy"]
       ELSE /\ pc' = [pc EXCEPT ![r] = "spawn"]
            /\ UNCHANGED loc
    /\ ptr' = [ptr EXCEPT ![r] = "none"]
    /\ UNCHANGED <<registryVars, ledgerVars, hubVars, connVars, proc, req,
                   goVars, intr, gs>>

\* the error reply of a request that does not start a run
SendError(r) ==
    /\ pc[r] = "errsend"
    /\ IsWS(r) => ~stalled[req[r].conn]
    /\ recv' = IF IsWS(r) THEN Deliver(req[r].conn, <<"error", r>>) ELSE recv
    /\ pc' = [pc EXCEPT ![r] = "done"]
    /\ UNCHANGED <<registryVars, ledgerVars, hubVars, stalled, envVars, proc,
                   req, loc, ptr, goVars, intr, gs>>

\* cmd.Start() succeeds
SpawnOk(r) ==
    /\ pc[r] = "spawn"
    /\ proc' = [proc EXCEPT ![r].state = "running"]
    /\ pc' = [pc EXCEPT ![r] = "nextid"]
    /\ UNCHANGED <<registryVars, ledgerVars, hubVars, connVars, req, loc, ptr,
                   goVars, intr, gs>>

\* a spawn failure found out only after the process id has been taken
SpawnFailLate(r) ==
    /\ pc[r] = "spawn"
    /\ pc' = [pc EXCEPT ![r] = "errsend"]
    /\ processCounter' = getNextProcessID
    /\ loc' = [loc EXCEPT ![r].result = "spawnfail"]
    /\ UNCHANGED <<activeProcesses, ledgerVars, hubVars, connVars, proc, req,
                   ptr, goVars, intr, gs>>

\* the working directory does not exist, a pipe or cmd.Start() fails
SpawnFail(r) ==
    /\ pc[r] = "spawn"
    /\ pc' = [pc EXCEPT ![r] = "errsend"]
    /\ loc' = [loc EXCEPT ![r].result = "spawnfail"]
    /\ UNCHANGED <<registryVars, ledgerVars, hubVars, connVars, proc, req, ptr,
                   goVars, intr, gs>>

\* processID := getNextProcessID()
NextID(r) ==
    /\ pc[r] = "nextid"
    /\ processCounter' = getNextProcessID
    /\ loc' = [loc EXCEPT ![r].pid = getNextProcessID]
    /\ pc' = [pc EXCEPT ![r] = "register"]
    /\ UNCHANGED <<activeProcesses, ledgerVars, hubVars, connVars, proc, req,
                   ptr, goVars, intr, gs>>

\* registerProcess(processID, &ProcessInfo{...})
Register(r) ==
    /\ pc[r] = "register"
    /\ activeProcesses' =
          registerProcess(loc[r].pid, [SessionID |-> req[r].sess, Cmd |-> r])
    /\ pc' = [pc EXCEPT ![r] = IF req[r].sess # "" THEN "setload"
                               ELSE IF IsWS(r) THEN "sendpid" ELSE "wait"]
    /\ loc' = [loc EXCEPT ![r].result = "started"]
    /\ UNCHANGED <<processCounter, ledgerVars, hubVars, connVars, proc, req,
                   ptr, goVars, intr, gs>>

\* SetSessionLoading(activeSessionID, true)
SetLoading(r) ==
    /\ pc[r] = "setload"
    /\ LedgerSet(setSessionLoading(stateSessions, req[r].sess, TRUE))
    /\ pc' = [pc EXCEPT ![r] = "setpid"]
    /\ UNCHANGED <<registryVars, hubVars, connVars, proc, req, loc, goVars,
                   intr, gs>>

\* SetSessionProcessID(activeSessionID, &processID)
SetProcessID(r) ==
    /\ pc[r] = "setpid"
    /\ LedgerSet(setSessionProcessID(stateSessions, req[r].sess, loc[r].pid))
    /\ pc' = [pc EXCEPT ![r] = IF IsWS(r) THEN "subscribe" ELSE "wait"]
    /\ UNCHANGED <<registryVars, hubVars, connVars, proc, req, loc, goVars,
                   intr, gs>>

\* sessionHub.Subscribe(activeSessionID, ws): the sender joins its session
RunSubscribe(r) ==
    /\ pc[r] = "subscribe"
    /\ Subscribe(req[r].sess, req[r].conn, <<"run", r>>)
    /\ pc' = [pc EXCEPT ![r] = IF req[r].prompt THEN "setprompt" ELSE "sendpid"]
    /\ UNCHANGED <<registryVars, ledgerVars, pendingPrompts, accumulatedContent,
                   connVars, proc, req, loc, ptr, bc, rd, sub, intr, gs>>

\* sessionHub.SetPendingPrompt(activeSessionID, req.Prompt)
RunSetPrompt(r) ==
    /\ pc[r] = "setprompt"
    /\ pendingPrompts' = SetPendingPrompt(req[r].sess, <<"userPrompt", r>>)
    /\ pc' = [pc EXCEPT ![r] = "bprompt"]
    /\ UNCHANGED <<registryVars, ledgerVars, hubSessions, accumulatedContent,
                   connVars, proc, req, loc, ptr, goVars, intr, gs>>

\* ws.SendJSON({"type": "processId"}); the two readers start after it
SendProcessID(r) ==
    /\ pc[r] = "sendpid"
    /\ ~stalled[req[r].conn]
    /\ recv' = Deliver(req[r].conn, <<"processId", r>>)
    /\ pc' = [pc EXCEPT ![r] = "wait"]
    /\ rd' = [rd EXCEPT ![r].pc = "scan"]
    /\ UNCHANGED <<registryVars, ledgerVars, hubVars, stalled, envVars, proc,
                   req, loc, ptr, bc, rpl, sub, intr, gs>>

\* the first step of the deferred cleanup of a handler
CleanupStart(r) ==
    IF IsWS(r) THEN (IF req[r].sess # "" THEN "c_sl" ELSE "c_unreg")
    ELSE "h_unreg"

\* cmd.Wait() returns: the process is reaped
Wait(r) ==
    /\ pc[r] = "wait"
    /\ proc[r].state = "exited"
    /\ proc' = [proc EXCEPT ![r].state = "reaped"]
    /\ pc' = [pc EXCEPT ![r] = IF IsWS(r) THEN "wgwait" ELSE CleanupStart(r)]
    /\ UNCHANGED <<registryVars, ledgerVars, hubVars, connVars, req, loc, ptr,
                   goVars, intr, gs>>

\* wg.Wait(): both readers have returned
WgWait(r) ==
    /\ pc[r] = "wgwait"
    /\ rd[r].pc = "done"
    /\ pc' = [pc EXCEPT ![r] = "final"]
    /\ UNCHANGED <<registryVars, ledgerVars, hubVars, connVars, proc, req, loc,
                   ptr, goVars, intr, gs>>


\* ---------------------------------------------------- SessionHub.Broadcast

Gor == {"main", "out"}
IdleBroadcast == [phase |-> "idle", live |-> FALSE, base |-> {}, visited |-> {},
                  cur |-> {}, msg |-> <<>>]

\* the outcome both handlers report for the error cmd.Wait() returned: nil is
\* "done", an exit error with code 1, -1, 130 or 137 is "done", every other
\* exit error and every error that is not an exit error is "error"
Interpret(err) ==
    IF err.kind = "nil" THEN "done"
    ELSE IF err.kind = "exit"
         THEN (IF err.code \in {1, -1, 130, 137} THEN "done" ELSE "error")
         ELSE "error"

\* what cmd.Wait() returns: nil after exit 0, an *exec.ExitError otherwise
WaitResult(r) == [kind |-> IF proc[r].code = 0 THEN "nil" ELSE "exit",
                  code |-> proc[r].code]

TerminalEvent(r) == Interpret(WaitResult(r))

\* the goroutine g of run r is inside a Broadcast (or sendOrBroadcast) call
InBroadcast(r, g) == IF g = "main" THEN pc[r] \in {"bprompt", "final"}
                     ELSE rd[r].pc = "bcast"

BroadcastMsg(r, g) ==
    IF g = "out" THEN <<"data", rd[r].line>>
    ELSE IF pc[r] = "bprompt" THEN <<"userPrompt", r>>
    ELSE <<TerminalEvent(r), r>>

\* a Broadcast that goes over the connections of every session
TargetsAll(r) == UNION {hubSessions[s] : s \in SessionIds} \cup {req[r].conn}

\* the entries of the map the call iterates; with no session id the message
\* goes to the sender alone (ws.SendJSON)
Targets(r) == IF req[r].sess = "" THEN {req[r].conn} ELSE hubSessions[req[r].sess]

\* `conns := h.sessions[sessionID]` under RLock: a reference to the live map
BroadcastBegin(r, g) ==
    /\ InBroadcast(r, g)
    /\ bc[r][g].phase = "idle"
    /\ bc' = [bc EXCEPT ![r][g] = [phase |-> "iter", live |-> Targets(r) # {},
                                   base |-> Targets(r), visited |-> {},
                                   cur |-> {}, msg |-> BroadcastMsg(r, g)]]
    /\ UNCHANGED <<registryVars, ledgerVars, hubVars, connVars, proc, runVars,
                   rd, rpl, sub, intr, gs>>

\* what the iteration can still produce: the map is read without the lock, so
\* an entry added meanwhile may be produced or skipped
Current(r, g) == IF bc[r][g].live THEN Targets(r) ELSE {}

\* `for ws := range conns { ws.SendJSON(msg) }`: the next entry; the write
\* blocks while the peer is stalled
BroadcastNext(r, g, c) ==
    /\ bc[r][g].phase = "iter"
    /\ bc[r][g].cur = {}
    /\ c \in Current(r, g) \ bc[r][g].visited
    /\ IF stalled[c]
       THEN /\ bc' = [bc EXCEPT ![r][g].cur = {c}]
            /\ UNCHANGED recv
       ELSE /\ bc' = [bc EXCEPT ![r][g].visited = @ \cup {c}]
            /\ recv' = Deliver(c, bc[r][g].msg)
    /\ UNCHANGED <<registryVars, ledgerVars, hubVars, stalled, envVars, proc,
                   runVars, rd, rpl, sub, intr, gs>>

\* the blocked write goes through once the peer reads again
BroadcastResume(r, g) ==
    /\ bc[r][g].phase = "iter"
    /\ \E c \in bc[r][g].cur :
          /\ ~stalled[c]
          /\ bc' = [bc EXCEPT ![r][g].visited = @ \cup {c}, ![r][g].cur = {}]
          /\ recv' = Deliver(c, bc[r][g].msg)
    /\ UNCHANGED <<registryVars, ledgerVars, hubVars, stalled, envVars, proc,
                   runVars, rd, rpl, sub, intr, gs>>

\* the iteration is over: every entry that was there all along has been sent to
BroadcastEnd(r, g) ==
    /\ bc[r][g].phase = "iter"
    /\ bc[r][g].cur = {}
    /\ (bc[r][g].base \cap Current(r, g)) \subseteq bc[r][g].visited
    /\ bc' = [bc EXCEPT ![r][g] = IdleBroadcast]
    /\ IF g = "main"
       THEN /\ pc' = [pc EXCEPT ![r] = IF pc[r] = "bprompt" THEN "sendpid"
                                       ELSE CleanupStart(r)]
            /\ UNCHANGED rd
       ELSE /\ rd' = [rd EXCEPT ![r].pc = "scan"]
            /\ UNCHANGED pc
    /\ UNCHANGED <<registryVars, ledgerVars, hubVars, connVars, proc, req, loc,
                   ptr, rpl, sub, intr, gs>>

\* ------------------------------------------------------ the stdout reader

\* scanner.Scan() yields the next line; AppendContent stores it
ReaderLine(r) ==
    /\ rd[r].pc = "scan"
    /\ rd[r].nread < proc[r].emitted
    /\ rd' = [rd EXCEPT ![r].nread = @ + 1, ![r].line = <<r, rd[r].nread + 1>>,
                        ![r].pc = "bcast"]
    /\ accumulatedContent' =
          IF req[r].sess = "" THEN accumulatedContent
          ELSE AppendContent(req[r].sess, <<r, rd[r].nread + 1>>)
    /\ UNCHANGED <<registryVars, ledgerVars, hubSessions, pendingPrompts,
                   connVars, proc, runVars, bc, rpl, sub, intr, gs>>

\* scanner.Scan() returns false: the pipe is drained and closed
ReaderEOF(r) ==
    /\ rd[r].pc = "scan"
    /\ rd[r].nread = proc[r].emitted
    /\ proc[r].state \in {"exited", "reaped"}
    /\ rd' = [rd EXCEPT ![r].pc = "done"]
    /\ UNCHANGED <<registryVars, ledgerVars, hubVars, connVars, proc, runVars,
                   bc, rpl, sub, intr, gs>>

\* scanner.Scan() returns false on a read error or an over-long line while the
\* process is alive: the goroutine logs scanner.Err() and returns
ReaderFail(r) ==
    /\ rd[r].pc = "scan"
    /\ proc[r].state = "running"
    /\ rd' = [rd EXCEPT ![r].pc = "done", ![r].failed = TRUE]
    /\ UNCHANGED <<registryVars, ledgerVars, hubVars, connVars, proc, runVars,
                   bc, rpl, sub, intr, gs>>

\* the stderr reader: scanner.Scan() yields the next line and ws.SendJSON
\* writes it, tagged "stderr", to the connection of the run; the goroutine
\* runs from the start of the readers until wg.Wait() has returned
StderrLine(r) ==
    /\ pc[r] \in {"wait", "wgwait"}
    /\ rd[r].eread < proc[r].errs
    /\ ~stalled[req[r].conn]
    /\ rd' = [rd EXCEPT ![r].eread = @ + 1]
    /\ recv' = Deliver(req[r].conn, <<"stderr", <<r, rd[r].eread + 1>>>>)
    /\ UNCHANGED <<registryVars, ledgerVars, hubVars, stalled, envVars, proc,
                   runVars, bc, rpl, sub, intr, gs>>

\* cmd.Wait() has returned and closed the read end of the stdout pipe while
\* the reader was still scanning: the next read fails and the lines left in
\* the pipe are lost (Wait is called before the reads have completed)
ReaderCut(r) ==
    /\ rd[r].pc = "scan"
    /\ proc[r].state = "reaped"
    /\ rd[r].nread < proc[r].emitted
    /\ rd' = [rd EXCEPT ![r].pc = "done"]
    /\ UNCHANGED <<registryVars, ledgerVars, hubVars, connVars, proc, runVars,
                   bc, rpl, sub, intr, gs>>

\* ------------------------------------------ goroutines spawned by Subscribe

RplKeys == ({"run"} \X Runs) \cup ({"sub"} \X Conns)
NoReplay == [conn |-> 1, prompt |-> <<>>, chunks |-> <<>>]

\* `go ws.SendJSON({"type": "userPrompt", ...})`
ReplayPrompt(k) ==
    /\ rpl[k].prompt # <<>>
    /\ ~stalled[rpl[k].conn]
    /\ recv' = Deliver(rpl[k].conn, Head(rpl[k].prompt))
    /\ rpl' = [rpl EXCEPT ![k].prompt = <<>>]
    /\ UNCHANGED <<registryVars, ledgerVars, hubVars, stalled, envVars, proc,
                   runVars, bc, rd, sub, intr, gs>>

\* `go func() { for _, chunk := range chunks { ws.SendJSON(...) } }()`
ReplayChunk(k) ==
    /\ rpl[k].chunks # <<>>
    /\ ~stalled[rpl[k].conn]
    /\ recv' = Deliver(rpl[k].conn, <<"data", Head(rpl[k].chunks)>>)
    /\ rpl' = [rpl EXCEPT ![k].chunks = Tail(@)]
    /\ UNCHANGED <<registryVars, ledgerVars, hubVars, stalled, envVars, proc,
                   runVars, bc, rd, sub, intr, gs>>

\* ChatWebSocket, case "subscribe": a viewer connection joins a session
ViewerSubscribe(c, s) ==
    /\ sub[c].st = "idle"
    /\ Subscribe(s, c, <<"sub", c>>)
    /\ sub' = [sub EXCEPT ![c] = [st |-> "subscribed", sessions |-> {s}]]
    /\ UNCHANGED <<registryVars, ledgerVars, pendingPrompts, accumulatedContent,
                   connVars, proc, runVars, bc, rd, intr, gs>>

\* ChatWebSocket: conn.ReadJSON fails because the peer has closed; the deferred
\* calls unsubscribe the connection from the sessions of subscribedSessions
\* (those of its "subscribe" messages) and close it. Writes blocked on the
\* connection fail, and a Broadcast iterating a map that Unsubscribe has
\* deleted holds an empty map from now on.
ConnClose(c) ==
    /\ sub[c].st # "closed"
    /\ hubSessions' = [s \in SessionIds |->
                         IF s \in sub[c].sessions
                         THEN Unsubscribe(hubSessions, s, c)[s]
                         ELSE hubSessions[s]]
    /\ sub' = [sub EXCEPT ![c].st = "closed"]
    /\ stalled' = [stalled EXCEPT ![c] = FALSE]
    /\ bc' = [r \in Runs |-> [g \in Gor |->
                 IF /\ bc[r][g].phase = "iter"
                    /\ req[r].sess \in sub[c].sessions
                    /\ hubSessions'[req[r].sess] = {}
                 THEN [bc[r][g] EXCEPT !.live = FALSE]
                 ELSE bc[r][g]]]
    /\ UNCHANGED <<registryVars, ledgerVars, pendingPrompts, accumulatedContent,
                   recv, envVars, proc, runVars, rd, rpl, intr, gs>>

\* ------------------------------------------------------- deferred cleanup

\* SetSessionLoading(activeSessionID, false)
CleanupLoading(r) ==
    /\ pc[r] \in {"c_sl", "h_sl"}
    /\ LedgerSet(setSessionLoading(stateSessions, req[r].sess, FALSE))
    /\ pc' = [pc EXCEPT ![r] = IF IsWS(r) THEN "c_sp" ELSE "h_sp"]
    /\ UNCHANGED <<registryVars, hubVars, connVars, proc, req, loc, goVars,
                   intr, gs>>

\* SetSessionProcessID(activeSessionID, nil)
CleanupProcessID(r) ==
    /\ pc[r] \in {"c_sp", "h_sp"}
    /\ LedgerSet(setSessionProcessID(stateSessions, req[r].sess, NoPid))
    /\ pc' = [pc EXCEPT ![r] = IF IsWS(r) THEN "c_cpp" ELSE "done"]
    /\ UNCHANGED <<registryVars, hubVars, connVars, proc, req, loc, goVars,
                   intr, gs>>

\* sessionHub.ClearPendingPrompt(activeSessionID)
CleanupPrompt(r) ==
    /\ pc[r] = "c_cpp"
    /\ pendingPrompts' = ClearPendingPrompt(req[r].sess)
    /\ pc' = [pc EXCEPT ![r] = "c_cac"]
    /\ UNCHANGED <<registryVars, ledgerVars, hubSessions, accumulatedContent,
                   connVars, proc, req, loc, ptr, goVars, intr, gs>>

\* sessionHub.ClearAccumulatedContent(activeSessionID)
CleanupContent(r) ==
    /\ pc[r] = "c_cac"
    /\ accumulatedContent' = ClearAccumulatedContent(req[r].sess)
    /\ pc' = [pc EXCEPT ![r] = "c_unreg"]
    /\ UNCHANGED <<registryVars, ledgerVars, hubSessions, pendingPrompts,
                   connVars, proc, req, loc, ptr, goVars, intr, gs>>

\* unregisterProcess(processID): last in handleWSChat, first in executeChatStream
CleanupUnregister(r) ==
    /\ pc[r] \in {"c_unreg", "h_unreg"}
    /\ activeProcesses' = unregisterProcess(loc[r].pid)
    /\ pc' = [pc EXCEPT ![r] = IF IsWS(r) \/ req[r].sess = "" THEN "done"
                               ELSE "h_sl"]
    /\ UNCHANGED <<processCounter, ledgerVars, hubVars, connVars, proc, req,
                   loc, ptr, goVars, intr, gs>>


\* -------------------------------------------------------------- interrupts

\* InterruptChat: `if sessionID == ""`, 400 "sessionId is required"; the
\* WebSocket handler has no such test
Refused(i) == intr[i].kind = "http" /\ intr[i].sess = ""

IntRefuse(i) ==
    /\ intr[i].pc = "idle"
    /\ Refused(i)
    /\ intr' = [intr EXCEPT ![i].pc = "done", ![i].result = "badRequest"]
    /\ UNCHANGED <<registryVars, ledgerVars, hubVars, connVars, proc, runVars,
                   goVars, gs>>

\* a lookup loop that takes an entry whatever its session
IntLookupAny(i, p) ==
    /\ intr[i].pc = "idle"
    /\ p \in DOMAIN activeProcesses
    /\ intr' = [intr EXCEPT ![i].pc = "kill", ![i].pid = p,
                            ![i].cmd = activeProcesses[p].Cmd,
                            ![i].seen = {q \in DOMAIN activeProcesses :
                                activeProcesses[q].SessionID = intr[i].sess}]
    /\ UNCHANGED <<registryVars, ledgerVars, hubVars, connVars, proc, runVars,
                   goVars, gs>>

\* the lookup loop under processLock.RLock(): some entry of the session
IntLookup(i, p) ==
    /\ intr[i].pc = "idle"
    /\ ~Refused(i)
    /\ p \in DOMAIN activeProcesses
    /\ activeProcesses[p].SessionID = intr[i].sess
    /\ intr' = [intr EXCEPT ![i].pc = "kill", ![i].pid = p,
                            ![i].cmd = activeProcesses[p].Cmd,
                            ![i].seen = {q \in DOMAIN activeProcesses :
                                activeProcesses[q].SessionID = intr[i].sess}]
    /\ UNCHANGED <<registryVars, ledgerVars, hubVars, connVars, proc, runVars,
                   goVars, gs>>

\* no entry of the session: 404 "process not found" / "No process found"
IntNotFound(i) ==
    /\ intr[i].pc = "idle"
    /\ ~Refused(i)
    /\ \A p \in DOMAIN activeProcesses :
          activeProcesses[p].SessionID # intr[i].sess
    /\ intr' = [intr EXCEPT ![i].pc = "done", ![i].result = "notFound"]
    /\ UNCHANGED <<registryVars, ledgerVars, hubVars, connVars, proc, runVars,
                   goVars, gs>>

\* cmd.Process.Kill() outside the lock; InterruptChat answers 500 when it
\* fails, the WebSocket handler ignores the error
IntKill(i) ==
    /\ intr[i].pc = "kill"
    /\ IF intr[i].kind = "http" /\ KillFails(intr[i].cmd)
       THEN /\ intr' = [intr EXCEPT ![i].pc = "done", ![i].result = "error"]
            /\ UNCHANGED proc
       ELSE /\ intr' = [intr EXCEPT ![i].pc = "unreg"]
            /\ proc' = Kill(intr[i].cmd)
    /\ UNCHANGED <<registryVars, ledgerVars, hubVars, connVars, runVars, goVars,
                   gs>>

\* unregisterProcess(pid); InterruptChat answers 200 here
IntUnregister(i) ==
    /\ intr[i].pc = "unreg"
    /\ activeProcesses' = unregisterProcess(intr[i].pid)
    /\ intr' = IF intr[i].kind = "http"
               THEN [intr EXCEPT ![i].pc = "done", ![i].result = "ok",
                                 ![i].seen = {}]
               ELSE [intr EXCEPT ![i].pc = "sl"]
    /\ UNCHANGED <<processCounter, ledgerVars, hubVars, connVars, proc, runVars,
                   goVars, gs>>

\* WebSocket only: SetSessionLoading(req.SessionID, false)
IntLoading(i) ==
    /\ intr[i].pc = "sl"
    /\ LedgerSet(setSessionLoading(stateSessions, intr[i].sess, FALSE))
    /\ intr' = [intr EXCEPT ![i].pc = "sp"]
    /\ UNCHANGED <<registryVars, hubVars, connVars, proc, req, pc, loc, goVars,
                   gs>>

\* WebSocket only: SetSessionProcessID(req.SessionID, nil)
IntProcessID(i) ==
    /\ intr[i].pc = "sp"
    /\ LedgerSet(setSessionProcessID(stateSessions, intr[i].sess, NoPid))
    /\ intr' = [intr EXCEPT ![i].pc = "done", ![i].result = "ok",
                            ![i].seen = {}]
    /\ UNCHANGED <<registryVars, hubVars, connVars, proc, req, pc, loc, goVars,
                   gs>>

\* ---------------------------------------------------------------- getState

NoView == [s \in {} |-> NewSessionState]

\* the registry snapshot, taken before the ledger lock
GetStateSnapshot(g) ==
    /\ gs[g].pc = "idle"
    /\ gs' = [gs EXCEPT ![g] = [pc |-> "rec", snap |-> activeProcessSnapshot,
                                cleaned |-> {}, view |-> NoView]]
    /\ UNCHANGED <<registryVars, ledgerVars, hubVars, connVars, proc, runVars,
                   goVars, intr>>

\* under sm.mu.Lock(): stale sessions are cleared; a broadcast follows if any
GetStateReconcile(g) ==
    /\ gs[g].pc = "rec"
    /\ stateSessions' = reconcile(stateSessions, gs[g].snap)
    /\ bcastPending' = IF sessionsToClean(stateSessions, gs[g].snap) # {}
                       THEN spawnBroadcast ELSE bcastPending
    /\ ptr' = staleAfter(stateSessions')
    /\ gs' = [gs EXCEPT ![g].pc = "copy",
                        ![g].cleaned = sessionsToClean(stateSessions, gs[g].snap)]
    /\ UNCHANGED <<registryVars, clientVars, hubVars, connVars, proc, req, pc, loc,
                   goVars, intr>>

\* under sm.mu.RLock(): the copy that is returned
GetStateCopy(g) ==
    /\ gs[g].pc = "copy"
    /\ gs' = [gs EXCEPT ![g].pc = "idle", ![g].view = stateSessions]
    /\ UNCHANGED <<registryVars, ledgerVars, hubVars, connVars, proc, runVars,
                   goVars, intr>>

\* ------------------------------------------------------ change broadcaster

\* json.Marshal(sm.state): the ledger as it is now (where nothing observes the
\* updates, their content is left out)
Marshal == IF observing THEN stateSessions ELSE NoView

\* a send that waits for room in the channel instead of dropping
OfferAll(q, data) == Append(q, data)

\* `select { case client.Channel <- data: default: }`
Offer(q, data) == IF Len(q) < ChannelDepth THEN Append(q, data) ELSE q

RemoveAt(q, i) == SubSeq(q, 1, i - 1) \o SubSeq(q, i + 1, Len(q))

\* broadcast(), first critical section: the state is marshalled under sm.mu
BroadcastMarshal ==
    /\ bcastPending > 0
    /\ bcastPending' = bcastPending - 1
    /\ bcastData' = Append(bcastData, Marshal)
    /\ UNCHANGED <<registryVars, stateSessions, clients, sse, hubVars, connVars,
                   proc, runVars, goVars, intr, gs>>

\* broadcast(), second critical section: the update is offered to every client
BroadcastDeliver(i) ==
    /\ i \in 1..Len(bcastData)
    /\ clients' = [k \in DOMAIN clients |-> Offer(clients[k], bcastData[i])]
    /\ sse' = [k \in StateClients |->
                 IF k \in DOMAIN clients /\ clients'[k] = clients[k]
                 THEN [sse[k] EXCEPT !.dropped = TRUE] ELSE sse[k]]
    /\ bcastData' = RemoveAt(bcastData, i)
    /\ UNCHANGED <<registryVars, stateSessions, bcastPending, hubVars, connVars,
                   proc, runVars, goVars, intr, gs>>

\* SubscribeState: stateManager.addClient() (reg: the registry as the request
\* finds it)
AddClient(k) ==
    /\ sse[k].pc = "idle"
    /\ clients' = (k :> <<>>) @@ clients
    /\ sse' = [sse EXCEPT ![k].pc = "added", ![k].reg = DOMAIN activeProcesses]
    /\ UNCHANGED <<registryVars, stateSessions, bcastPending, bcastData,
                   hubVars, connVars, proc, runVars, goVars, intr, gs>>

\* what the client of a SubscribeState response is written
Written(k, m) == IF observing THEN [sse EXCEPT ![k].out = Append(@, m)] ELSE sse

\* a SubscribeState that enters its loop without the initial state
SseNoSnapshot(k) ==
    /\ sse[k].pc = "added"
    /\ sse' = [sse EXCEPT ![k].pc = "loop", ![k].reg = {}]
    /\ UNCHANGED <<registryVars, stateSessions, bcastPending, bcastData, clients,
                   hubVars, connVars, proc, runVars, goVars, intr, gs>>

\* SubscribeState, "Send initial state": the state is marshalled as it is
SseSnapshot(k) ==
    /\ sse[k].pc = "added"
    /\ sse' = [Written(k, <<"snapshot", Marshal>>) EXCEPT ![k].pc = "loop",
                                                           ![k].reg = {}]
    /\ UNCHANGED <<registryVars, stateSessions, bcastPending, bcastData, clients,
                   hubVars, connVars, proc, runVars, goVars, intr, gs>>

\* SubscribeState, `case data := <-client.Channel`
SseWrite(k) ==
    /\ sse[k].pc = "loop"
    /\ clients[k] # <<>>
    /\ sse' = Written(k, <<"update", Head(clients[k])>>)
    /\ clients' = [clients EXCEPT ![k] = Tail(@)]
    /\ UNCHANGED <<registryVars, stateSessions, bcastPending, bcastData,
                   hubVars, connVars, proc, runVars, goVars, intr, gs>>

\* SubscribeState, `case <-ctx.Done()`: the deferred removeClient
SseClose(k) ==
    /\ sse[k].pc = "loop"
    /\ sse' = [sse EXCEPT ![k].pc = "gone"]
    /\ clients' = Remove(clients, k)
    /\ UNCHANGED <<registryVars, stateSessions, bcastPending, bcastData,
                   hubVars, connVars, proc, runVars, goVars, intr, gs>>

\* the locals of a handler that has not started
NoLocals == [snap |-> {}, pid |-> NoPid, atIssue |-> {}, result |-> "none"]

\* the stdout reader of a handler that has not started it
NoReader == [pc |-> "off", nread |-> 0, line |-> <<>>, failed |-> FALSE,
             eread |-> 0]

\* the handler of r has returned and the next request arrives
NextRequest(r) ==
    /\ pc[r] = "done"
    /\ processCounter < MaxPids
    /\ pc' = [pc EXCEPT ![r] = "idle"]
    /\ loc' = [loc EXCEPT ![r] = NoLocals]
    /\ proc' = [proc EXCEPT ![r] = [state |-> "none", emitted |-> 0,
                                    errs |-> 0, code |-> 0]]
    /\ rd' = [rd EXCEPT ![r] = NoReader]
    /\ UNCHANGED <<registryVars, ledgerVars, hubVars, connVars, req, ptr,
                   bc, rpl, sub, intr, gs>>

\* ------------------------------------------- the tab-managing StateManager

\* TabState{ID: generateID()}; ids are 8 random bytes, here the next number
NewTab(id) == [ID |-> id, SessionID |-> ""]

\* init(): one default tab, which is the active one
InitTabs == [Tabs |-> <<NewTab(1)>>, ActiveTabID |-> 1, gen |-> 1,
             last |-> [op |-> "none", tabID |-> 0, sessionID |-> "", err |-> FALSE]]

\* everything but the tab manager
coreVars == <<registryVars, ledgerVars, hubVars, stalled, recv, observing, proc,
              runVars, goVars, intr, gs, cl, task>>

\* StateManager.createTab
CreateTab ==
    /\ tabs.gen < MaxTabIds
    /\ tabs' = [Tabs |-> Append(tabs.Tabs, NewTab(tabs.gen + 1)),
                ActiveTabID |-> tabs.gen + 1, gen |-> tabs.gen + 1,
                last |-> [op |-> "create", tabID |-> tabs.gen + 1,
                          sessionID |-> "", err |-> FALSE]]
    /\ UNCHANGED coreVars

\* StateManager.deleteTab: the last tab is replaced by a new empty one
DeleteTab(tabID) ==
    /\ tabs.gen < MaxTabIds
    /\ LET newTabs == SelectSeq(tabs.Tabs, LAMBDA t : t.ID # tabID)
           last == [op |-> "delete", tabID |-> tabID, sessionID |-> "",
                    err |-> FALSE]
       IN  tabs' = IF newTabs = <<>>
                   THEN [Tabs |-> <<NewTab(tabs.gen + 1)>>,
                         ActiveTabID |-> tabs.gen + 1, gen |-> tabs.gen + 1,
                         last |-> last]
                   ELSE [Tabs |-> newTabs,
                         ActiveTabID |-> IF tabs.ActiveTabID = tabID
                                         THEN newTabs[Len(newTabs)].ID
                                         ELSE tabs.ActiveTabID,
                         gen |-> tabs.gen, last |-> last]
    /\ UNCHANGED coreVars

\* a 1:1 check with the comparison of the tab ids inverted
sessionOpenInSameTab(T, tabID, sessionID) ==
    /\ sessionID # ""
    /\ \E i \in DOMAIN T : T[i].ID = tabID /\ T[i].SessionID = sessionID

\* the 1:1 check of setTabSession: the session is open in another tab
sessionOpenElsewhere(T, tabID, sessionID) ==
    /\ sessionID # ""
    /\ \E i \in DOMAIN T : T[i].ID # tabID /\ T[i].SessionID = sessionID

\* the assignment of setTabSession: the first tab with the id, if any
assignSession(T, tabID, sessionID) ==
    [i \in DOMAIN T |->
        IF T[i].ID = tabID /\ \A j \in 1..(i - 1) : T[j].ID # tabID
        THEN [T[i] EXCEPT !.SessionID = sessionID] ELSE T[i]]

\* StateManager.setTabSession (SetTabSessionHandler answers 409 on the error)
SetTabSession(tabID, sessionID) ==
    /\ tabs' = IF sessionOpenElsewhere(tabs.Tabs, tabID, sessionID)
               THEN [tabs EXCEPT !.last = [op |-> "set", tabID |-> tabID,
                                           sessionID |-> sessionID, err |-> TRUE]]
               ELSE [tabs EXCEPT !.Tabs = assignSession(@, tabID, sessionID),
                                 !.last = [op |-> "set", tabID |-> tabID,
                                           sessionID |-> sessionID, err |-> FALSE]]
    /\ UNCHANGED coreVars

\* ---------------------------------------------------------------- the client

\* App of one tab: nothing typed, nothing queued, no request sent
InitClient == [queue |-> <<>>, pending |-> FALSE, loading |-> FALSE,
               sent |-> <<>>, seen |-> [c \in Conns |-> 0], typed |-> 0,
               timer |-> <<>>]

\* everything but the client
serverVars == <<registryVars, ledgerVars, hubVars, stalled, recv, observing,
                proc, runVars, goVars, intr, gs, tabs, task>>

\* the session of the client's tab
TabSession == "s1"

\* queued.join: the queued texts as one text, in entry order
RECURSIVE Join(_)
Join(q) == IF q = <<>> THEN <<>> ELSE Head(q) \o Join(Tail(q))

\* handleSendMessage(text): with the session loading or a message pending the
\* text is queued; otherwise it becomes the pending message and a WebSocket
\* is opened that sends the chat request
handleSendMessage(C, text) ==
    IF C.loading \/ C.pending
    THEN [C EXCEPT !.queue = Append(@, text)]
    ELSE [C EXCEPT !.pending = TRUE, !.sent = Append(@, text)]

\* the user enters the next message (while the model has a request left)
UserType ==
    /\ cl.typed < MaxMsgs
    /\ Len(cl.sent) < Cardinality({r \in Runs : req[r].kind # "none"})
    /\ cl' = handleSendMessage([cl EXCEPT !.typed = @ + 1], <<cl.typed + 1>>)
    /\ UNCHANGED serverVars

\* a state update of /state/subscribe arrives: isLoading of the tab's session
ClientSync ==
    /\ cl' = [cl EXCEPT !.loading = /\ TabSession \in DOMAIN stateSessions
                                    /\ stateSessions[TabSession].IsLoading]
    /\ cl' # cl
    /\ UNCHANGED serverVars

\* onDone: the streaming state is cleared, and a non-empty queue is cleared
\* and handed, joined, to setTimeout(() => handleSendMessage(...), 100)
onDone(C) ==
    IF C.queue = <<>> THEN [C EXCEPT !.pending = FALSE]
    ELSE [C EXCEPT !.pending = FALSE, !.queue = <<>>,
                   !.timer = Append(@, Join(C.queue))]

\* ws.onmessage of a chat WebSocket: `done` calls onDone, `error` calls
\* onError (which only shows the text), the rest does not touch the queue
ClientRecv(c) ==
    /\ cl.seen[c] < Len(recv[c])
    /\ LET msg == recv[c][cl.seen[c] + 1]
           C == [cl EXCEPT !.seen[c] = @ + 1]
       IN  cl' = IF msg[1] = "done" THEN onDone(C) ELSE C
    /\ UNCHANGED serverVars

\* the timer of onDone fires
TimerFire ==
    /\ cl.timer # <<>>
    /\ Len(cl.sent) < Cardinality({r \in Runs : req[r].kind # "none"})
    /\ cl' = handleSendMessage([cl EXCEPT !.timer = Tail(@)], Head(cl.timer))
    /\ UNCHANGED serverVars

\* --------------------------------------------------------------- the locks

\* processLock, StateManager.mu, StateManager.clientMu, SessionHub.mu
Locks == {"processLock", "sm.mu", "clientMu", "hub.mu"}

Tasks == 1..MaxTasks

\* a critical section under L.Lock() / L.RLock() that calls nothing
W(L) == <<<<"Lock", L>>, <<"Unlock", L>>>>
R(L) == <<<<"RLock", L>>, <<"RUnlock", L>>>>

\* unregisterProcess(id)
unregisterCall == <<<<"call", "unregisterProcess">>>> \o W("processLock")
\* cmd.Process.Kill()
killCall == <<<<"call", "Kill">>>>

\* IsSessionLoading: the registry snapshot, getSessionState, and the two
\* setters where it finds a stale owner
isSessionLoading == R("processLock") \o R("sm.mu")
isSessionLoadingFix == isSessionLoading \o W("sm.mu") \o W("sm.mu")

\* handleWSChat after the busy check: registerProcess, SetSessionLoading,
\* SetSessionProcessID, Subscribe, SetPendingPrompt, Broadcast; a line of
\* output (AppendContent, Broadcast); the terminal Broadcast; the deferred
\* cleanup
runBody ==
    W("processLock") \o W("sm.mu") \o W("sm.mu")
        \o W("hub.mu") \o W("hub.mu") \o R("hub.mu")
        \o W("hub.mu") \o R("hub.mu") \o R("hub.mu")
        \o W("sm.mu") \o W("sm.mu") \o W("hub.mu") \o W("hub.mu")
        \o unregisterCall

\* the lock operations and calls of each operation, in program order
Program(op) ==
    CASE op = "startRun" -> isSessionLoading \o runBody
      [] op = "startRunFix" -> isSessionLoadingFix \o runBody
      [] op = "busy" -> isSessionLoading
      \* ChatWebSocket, case "interrupt"
      [] op = "wsInterrupt" ->
            R("processLock") \o killCall \o unregisterCall
                \o W("sm.mu") \o W("sm.mu")
      \* ChatWebSocket, case "interrupt", in the second definition of the file
      [] op = "wsInterrupt2" ->
            <<<<"RLock", "processLock">>>> \o killCall \o unregisterCall
                \o <<<<"RUnlock", "processLock">>>>
      \* InterruptChat
      [] op = "InterruptChat" ->
            R("processLock") \o killCall \o unregisterCall
      \* an interrupt that finds no process of the session
      [] op = "notFound" -> R("processLock")
      \* ChatWebSocket, case "subscribe", and the Unsubscribe on close
      [] op = "subscribe" -> W("hub.mu") \o W("hub.mu")
      \* getState: snapshot, reconciliation, copy
      [] op = "getState" -> R("processLock") \o W("sm.mu") \o R("sm.mu")
      \* StateManager.broadcast
      [] op = "broadcast" -> W("sm.mu") \o R("clientMu")
      \* SubscribeState: addClient, initial state, removeClient
      [] op = "SubscribeState" ->
            W("clientMu") \o R("sm.mu") \o W("clientMu")

\* the interrupt paths that take the lookup out of the critical section
InterruptOps == {"wsInterrupt", "InterruptChat", "notFound"}
\* every interrupt path of the source
AllInterruptOps == InterruptOps \cup {"wsInterrupt2"}
OtherOps == {"startRun", "startRunFix", "busy", "subscribe", "getState",
             "broadcast", "SubscribeState"}

NoTask == [op |-> "none", at |-> 0, held |-> {}]

TaskRunning(x) == task[x].op # "none" /\ task[x].at <= Len(Program(task[x].op))
NextOp(x) == Program(task[x].op)[task[x].at]

\* sync.RWMutex: Lock waits until nobody holds the lock; RLock waits while a
\* writer holds the lock or is waiting in Lock (a waiting writer shuts out
\* new readers)
WriterWaits(L) == \E y \in Tasks : TaskRunning(y) /\ NextOp(y) = <<"Lock", L>>
CanAcquire(x) ==
    LET L == NextOp(x)[2]
    IN  IF NextOp(x)[1] = "Lock"
        THEN \A y \in Tasks : \A m \in {"r", "w"} : <<L, m>> \notin task[y].held
        ELSE /\ \A y \in Tasks : <<L, "w">> \notin task[y].held
             /\ ~WriterWaits(L)

lockFrame == <<registryVars, ledgerVars, hubVars, stalled, recv, observing,
               tabs, cl, proc, runVars, goVars, intr, gs>>

\* a goroutine starts one of the operations
TaskStart(x, op) ==
    /\ task[x].op = "none"
    /\ task' = [task EXCEPT ![x] = [op |-> op, at |-> 1, held |-> {}]]
    /\ UNCHANGED lockFrame

\* Lock() / RLock() returns
TaskAcquire(x) ==
    /\ TaskRunning(x)
    /\ NextOp(x)[1] \in {"Lock", "RLock"}
    /\ CanAcquire(x)
    /\ task' = [task EXCEPT ![x].at = @ + 1,
                            ![x].held = @ \cup {<<NextOp(x)[2],
                                IF NextOp(x)[1] = "Lock" THEN "w" ELSE "r">>}]
    /\ UNCHANGED lockFrame

\* Unlock() / RUnlock()
TaskRelease(x) ==
    /\ TaskRunning(x)
    /\ NextOp(x)[1] \in {"Unlock", "RUnlock"}
    /\ task' = [task EXCEPT ![x].at = @ + 1,
                            ![x].held = @ \ {<<NextOp(x)[2],
                                IF NextOp(x)[1] = "Unlock" THEN "w" ELSE "r">>}]
    /\ UNCHANGED lockFrame

\* the goroutine enters the call (Kill returns without taking a lock)
TaskCall(x) ==
    /\ TaskRunning(x)
    /\ NextOp(x)[1] = "call"
    /\ task' = [task EXCEPT ![x].at = @ + 1]
    /\ UNCHANGED lockFrame

\* ----------------------------------------------------------- specifications


InitState ==
    /\ activeProcesses = [p \in {} |-> [SessionID |-> "", Cmd |-> 1]]
    /\ processCounter = 0
    /\ stateSessions = NoView
    /\ clients = <<>>
    /\ bcastPending = 0
    /\ bcastData = <<>>
    /\ hubSessions = [s \in SessionIds |-> {}]
    /\ pendingPrompts = [s \in {} |-> <<>>]
    /\ accumulatedContent = [s \in {} |-> <<>>]
    /\ stalled = [c \in Conns |-> FALSE]
    /\ recv = [c \in Conns |-> <<>>]
    /\ proc = [r \in Runs |-> [state |-> "none", emitted |-> 0, errs |-> 0,
                               code |-> 0]]
    /\ pc = [r \in Runs |-> "idle"]
    /\ loc = [r \in Runs |-> NoLocals]
    /\ ptr = [r \in Runs |-> "none"]
    /\ bc = [r \in Runs |-> [g \in Gor |-> IdleBroadcast]]
    /\ rd = [r \in Runs |-> NoReader]
    /\ rpl = [k \in RplKeys |-> NoReplay]
    /\ sub = [c \in Conns |-> [st |-> "idle", sessions |-> {}]]
    /\ gs = [g \in Readers |-> [pc |-> "idle", snap |-> {}, cleaned |-> {},
                                view |-> NoView]]
    /\ tabs = InitTabs
    /\ cl = InitClient
    /\ task = [x \in Tasks |-> NoTask]

\* nobody subscribes to the ledger / these clients will
NoSubscribers ==
    sse = [k \in StateClients |-> [pc |-> "none", reg |-> {}, out |-> <<>>,
                                 dropped |-> FALSE]]
Subscribers(n) ==
    sse = [k \in StateClients |-> [pc |-> IF k <= n THEN "idle" ELSE "none",
                                   reg |-> {}, out |-> <<>>, dropped |-> FALSE]]

\* the requests of a specification: the first n handlers get a request of one
\* of the kinds (in a fixed order of kinds: the handlers are interchangeable)
Requests(n, kinds) ==
    {q \in [Runs -> [kind : kinds \cup {"none"}, sess : {"s1"}, conn : {1},
                     prompt : {TRUE}]] :
        /\ \A r \in Runs : (q[r].kind = "none") <=> (r > n)
        /\ \A r \in Runs \ {1} : q[r - 1].kind = "http" => q[r].kind # "ws"}

Interrupts(kinds) ==
    [Ints -> [kind : kinds, sess : {"s1"}, pc : {"idle"}, pid : {NoPid},
              cmd : {1}, seen : {{}}, result : {"none"}]]

\* Run coordination: chat requests over WebSocket and HTTP for one session and
\* interrupts from both entry points. The processes print nothing and no
\* peer stalls.
Init ==
    /\ InitState
    /\ NoSubscribers
    /\ observing = FALSE
    /\ req \in Requests(CoordRuns, {"ws", "http"})
    /\ intr \in Interrupts({"ws", "http"})

RunStep(r) ==
    \/ StartRun(r) \/ ISLGet(r) \/ ISLReadLoading(r) \/ ISLReadProcessID(r)
    \/ ISLFix1(r) \/ ISLFix2(r) \/ ISLReturn(r) \/ SendError(r)
    \/ SpawnOk(r) \/ NextID(r) \/ Register(r) \/ SetLoading(r)
    \/ SetProcessID(r) \/ RunSubscribe(r) \/ RunSetPrompt(r)
    \/ SendProcessID(r) \/ Wait(r) \/ WgWait(r) \/ ReaderEOF(r)
    \/ CleanupLoading(r) \/ CleanupProcessID(r) \/ CleanupPrompt(r)
    \/ CleanupContent(r) \/ CleanupUnregister(r)
    \/ \E g \in Gor : BroadcastBegin(r, g) \/ BroadcastEnd(r, g)
    \/ \E g \in Gor, c \in Conns : BroadcastNext(r, g, c)

IntStep(i) ==
    \/ \E p \in Runs : IntLookup(i, p)
    \/ IntNotFound(i) \/ IntKill(i) \/ IntUnregister(i)
    \/ IntLoading(i) \/ IntProcessID(i)

ReaderStep(g) ==
    GetStateSnapshot(g) \/ GetStateReconcile(g) \/ GetStateCopy(g)

Next ==
    \/ \E r \in Runs : RunStep(r) \/ ProcExit(r, 0)
    \/ \E k \in RplKeys : ReplayPrompt(k)
    \/ \E i \in Ints : IntStep(i)

Spec == Init /\ [][Next]_vars


\* Three chat requests over HTTP for one session, no interrupt.
InitRace ==
    /\ InitState
    /\ NoSubscribers
    /\ observing = FALSE
    /\ req \in Requests(MaxRuns, {"http"})
    /\ intr \in Interrupts({"http"})

HttpRunStep(r) ==
    \/ StartRun(r) \/ ISLGet(r) \/ ISLReadLoading(r) \/ ISLReadProcessID(r)
    \/ ISLFix1(r) \/ ISLFix2(r) \/ ISLReturn(r) \/ SendError(r)
    \/ SpawnOk(r) \/ NextID(r) \/ Register(r) \/ SetLoading(r)
    \/ SetProcessID(r) \/ Wait(r)
    \/ CleanupLoading(r) \/ CleanupProcessID(r) \/ CleanupUnregister(r)

NextRace == \E r \in Runs : HttpRunStep(r) \/ ProcExit(r, 0)

RaceSpec == InitRace /\ [][NextRace]_vars

\* The getState reader against two chat requests over HTTP and an interrupt
\* from either entry point (InterruptChat leaves the ledger as it is).
InitLedger ==
    /\ InitState
    /\ NoSubscribers
    /\ observing = FALSE
    /\ req \in Requests(CoordRuns, {"http"})
    /\ intr \in Interrupts({"ws", "http"})

NextLedger ==
    \/ \E r \in Runs : HttpRunStep(r) \/ ProcExit(r, 0)
    \/ \E i \in Ints : IntStep(i)
    \/ \E g \in Readers : ReaderStep(g)

LedgerSpec == InitLedger /\ [][NextLedger]_vars

\* The Output Hub: one run over WebSocket whose process prints MaxLines lines,
\* a second connection that subscribes to the session at any moment, and
\* peers that may stop reading and resume.
InitHub ==
    /\ InitState
    /\ NoSubscribers
    /\ observing = TRUE
    /\ req \in Requests(1, {"ws"})
    /\ intr \in Interrupts({"ws"})

WsRunStep(r) ==
    \/ StartRun(r) \/ ISLGet(r) \/ SpawnOk(r) \/ NextID(r) \/ Register(r)
    \/ SetLoading(r) \/ SetProcessID(r) \/ RunSubscribe(r) \/ RunSetPrompt(r)
    \/ SendProcessID(r) \/ Wait(r) \/ WgWait(r)
    \/ ReaderLine(r) \/ ReaderEOF(r)
    \/ CleanupLoading(r) \/ CleanupProcessID(r) \/ CleanupPrompt(r)
    \/ CleanupContent(r) \/ CleanupUnregister(r)
    \/ \E g \in Gor : BroadcastBegin(r, g) \/ BroadcastEnd(r, g)
    \/ \E g \in Gor, c \in Conns : BroadcastNext(r, g, c)

Viewers == Conns \ {1}

NextHub ==
    \/ \E r \in Runs : WsRunStep(r) \/ ProcEmit(r) \/ ProcExit(r, 0)
    \/ \E r \in Runs, g \in Gor : BroadcastResume(r, g)
    \/ \E k \in RplKeys : ReplayPrompt(k) \/ ReplayChunk(k)
    \/ \E c \in Viewers, s \in SessionIds : ViewerSubscribe(c, s)
    \/ \E c \in Conns : Stall(c) \/ Resume(c)

HubSpec == InitHub /\ [][NextHub]_vars


\* One run over WebSocket to its end, under fair scheduling: the handler and
\* its reader goroutine take their steps whenever they can, the process exits in the end, and an interrupt that has
\* looked its process up runs to its return. Nothing obliges a peer to read
\* (a stalled peer stays stalled) or a user to interrupt.
InitFair ==
    /\ InitState
    /\ NoSubscribers
    /\ observing = FALSE
    /\ req \in Requests(1, {"ws"})
    /\ intr \in Interrupts({"ws"})

IntFinish(i) ==
    \/ IntNotFound(i) \/ IntKill(i) \/ IntUnregister(i)
    \/ IntLoading(i) \/ IntProcessID(i)

Scheduled ==
    \/ \E r \in Runs : WsRunStep(r) \/ ProcExit(r, 0) \/ ProcExit(r, 2)
    \/ \E i \in Ints : IntFinish(i)

NextFair ==
    \/ Scheduled
    \/ \E r \in Runs : ProcEmit(r)
    \/ \E i \in Ints, p \in Runs : IntLookup(i, p)
    \/ \E c \in Conns : Stall(c)

FairSpec == InitFair /\ [][NextFair]_vars /\ WF_vars(Scheduled)

\* One run over WebSocket whose stdout stream may fail while the process is
\* alive; the process exits with status 0 or with an unexpected status.
InitStream ==
    /\ InitState
    /\ NoSubscribers
    /\ observing = TRUE
    /\ req \in Requests(1, {"ws"})
    /\ intr \in Interrupts({"ws"})

NextStream ==
    \E r \in Runs :
        \/ WsRunStep(r) \/ ReaderFail(r) \/ ProcEmit(r)
        \/ ProcExit(r, 0) \/ ProcExit(r, 2)

StreamSpec == InitStream /\ [][NextStream]_vars

\* Two chat requests for one session, over WebSocket or HTTP, each of which
\* may fail to spawn its process.
InitSpawn ==
    /\ InitState
    /\ NoSubscribers
    /\ observing = TRUE
    /\ req \in Requests(CoordRuns, {"ws", "http"})
    /\ intr \in Interrupts({"ws"})

NextSpawn ==
    \/ \E r \in Runs : RunStep(r) \/ SpawnFail(r) \/ ProcExit(r, 0)
    \/ \E k \in RplKeys : ReplayPrompt(k)

SpawnSpec == InitSpawn /\ [][NextSpawn]_vars

\* The Change Broadcaster: chat requests over HTTP one after the other (each
\* makes four ledger changes), and clients of /state/subscribe that read
\* their updates or leave them in the queue.
InitBroadcast ==
    /\ InitState
    /\ Subscribers(MaxClients)
    /\ observing = FALSE
    /\ req \in Requests(1, {"http"})
    /\ intr \in Interrupts({"http"})

SoloRunStep(r) ==
    \/ StartRun(r) \/ ISLGet(r) \/ SpawnOk(r) \/ NextID(r) \/ Register(r)
    \/ SetLoading(r) \/ SetProcessID(r) \/ ProcExit(r, 0) \/ Wait(r)
    \/ CleanupUnregister(r) \/ CleanupLoading(r) \/ CleanupProcessID(r)
    \/ NextRequest(r)

ClientStep(k) == AddClient(k) \/ SseSnapshot(k) \/ SseWrite(k) \/ SseClose(k)

BroadcasterStep ==
    BroadcastMarshal \/ \E i \in 1..Len(bcastData) : BroadcastDeliver(i)

NextBroadcast ==
    \/ \E r \in Runs : SoloRunStep(r)
    \/ \E k \in StateClients : ClientStep(k)
    \/ BroadcasterStep

BroadcastSpec == InitBroadcast /\ [][NextBroadcast]_vars

\* One run over WebSocket whose process ends with any exit status, or is
\* killed by an interrupt from either entry point.
ExitCodes == {0, 1, 2, 130, 137}

InitExit ==
    /\ InitState
    /\ NoSubscribers
    /\ observing = TRUE
    /\ req \in Requests(1, {"ws"})
    /\ intr \in Interrupts({"ws", "http"})

NextExit ==
    \/ \E r \in Runs : WsRunStep(r) \/ ProcEmit(r)
    \/ \E r \in Runs, code \in ExitCodes : ProcExit(r, code)
    \/ \E i \in Ints : IntStep(i)

ExitSpec == InitExit /\ [][NextExit]_vars

\* The replay buffers of the hub: runs over WebSocket for one session, one
\* after the other, whose processes print lines, and a second connection that
\* subscribes to the session at any moment.
InitReplay ==
    /\ InitState
    /\ NoSubscribers
    /\ observing = FALSE
    /\ req \in Requests(1, {"ws"})
    /\ intr \in Interrupts({"ws"})

NextReplay ==
    \/ \E r \in Runs : WsRunStep(r) \/ NextRequest(r)
    \/ \E r \in Runs : ProcEmit(r) \/ ProcExit(r, 0)
    \/ \E k \in RplKeys : ReplayPrompt(k) \/ ReplayChunk(k)
    \/ \E c \in Viewers, s \in SessionIds : ViewerSubscribe(c, s)

ReplaySpec == InitReplay /\ [][NextReplay]_vars

\* Connections that close: one run over WebSocket, with a prompt or without
\* one (`--continue`), whose connection may also have subscribed to the
\* session by a "subscribe" message, a second connection, and either of them
\* closing at any moment.
InitClose ==
    /\ InitState
    /\ NoSubscribers
    /\ observing = TRUE
    /\ req \in {[q EXCEPT ![1].prompt = p] :
                   q \in Requests(1, {"ws"}), p \in BOOLEAN}
    /\ intr \in Interrupts({"ws"})

NextClose ==
    \/ \E r \in Runs : WsRunStep(r) \/ ProcEmit(r) \/ ProcExit(r, 0)
    \/ \E k \in RplKeys : ReplayPrompt(k) \/ ReplayChunk(k)
    \/ \E c \in Conns, r \in Runs : ViewerSubscribe(c, req[r].sess)
    \/ \E c \in Conns : ConnClose(c)

CloseSpec == InitClose /\ [][NextClose]_vars

\* Two sessions: a run over WebSocket for each; the run of the first may fail
\* to spawn, lose its stdout reader or be interrupted.
InitIso ==
    /\ InitState
    /\ NoSubscribers
    /\ observing = FALSE
    /\ req \in {[q EXCEPT ![CoordRuns].sess = "s2"] :
                   q \in Requests(CoordRuns, {"ws"})}
    /\ intr \in Interrupts({"ws"})

NextIso ==
    \/ \E r \in Runs : WsRunStep(r) \/ SendError(r)
    \/ \E r \in Runs : ProcEmit(r) \/ ProcExit(r, 0)
    \/ \E r \in Runs : req[r].sess = "s1" /\ (SpawnFail(r) \/ ReaderFail(r))
    \/ \E i \in Ints : IntStep(i)

IsoSpec == InitIso /\ [][NextIso]_vars

\* The stdout reader: one run over WebSocket whose process prints lines; the
\* scanner may fail, and cmd.Wait() may close the pipe under the reader.
InitLine ==
    /\ InitState
    /\ NoSubscribers
    /\ observing = TRUE
    /\ req \in Requests(1, {"ws"})
    /\ intr \in Interrupts({"ws"})

NextLine ==
    \/ \E r \in Runs : WsRunStep(r) \/ ReaderFail(r) \/ ReaderCut(r)
    \/ \E r \in Runs : ProcEmit(r) \/ ProcExit(r, 0)

LineSpec == InitLine /\ [][NextLine]_vars

\* The stderr reader: one run over WebSocket whose process prints lines on
\* stdout and stderr, and a second connection that subscribes to the session
\* before the run starts.
InitErr ==
    /\ InitState
    /\ NoSubscribers
    /\ observing = TRUE
    /\ req \in Requests(1, {"ws"})
    /\ intr \in Interrupts({"ws"})

NextErr ==
    \/ \E r \in Runs : WsRunStep(r) \/ StderrLine(r)
    \/ \E r \in Runs : ProcEmit(r) \/ ProcEmitErr(r) \/ ProcExit(r, 0)
    \/ \E c \in Viewers, r \in Runs :
          /\ req[r].kind # "none" /\ pc[r] = "idle"
          /\ ViewerSubscribe(c, req[r].sess)

ErrSpec == InitErr /\ [][NextErr]_vars

\* The tab manager: tabs are created and deleted and sessions are assigned to
\* tabs, existing or not.
InitTab ==
    /\ InitState
    /\ NoSubscribers
    /\ observing = FALSE
    /\ req \in Requests(1, {"http"})
    /\ intr \in Interrupts({"http"})

NextTab ==
    \/ CreateTab
    \/ \E tabID \in 1..MaxTabIds : DeleteTab(tabID)
    \/ \E tabID \in 1..MaxTabIds, sessionID \in SessionIds \cup {""} :
          SetTabSession(tabID, sessionID)

TabSpec == InitTab /\ [][NextTab]_vars

\* The client of one tab and the server: the user enters messages, each chat
\* request goes over a WebSocket of its own, the process of a run ends with
\* exit status 0 or 2, and the client follows the ledger by state updates.
InitClientSpec ==
    /\ InitState
    /\ NoSubscribers
    /\ observing = TRUE
    /\ req \in {[q EXCEPT ![CoordRuns].conn = MaxConns] :
                   q \in Requests(CoordRuns, {"ws"})}
    /\ intr \in Interrupts({"ws"})

NextClientSpec ==
    \/ UserType \/ ClientSync \/ TimerFire
    \/ \E c \in Conns : ClientRecv(c)
    \/ \E r \in Runs : Len(cl.sent) >= r /\ RunStep(r)
    \/ \E r \in Runs : ProcExit(r, 0) \/ ProcExit(r, 2)
    \/ \E k \in RplKeys : ReplayPrompt(k)

ClientSpec == InitClientSpec /\ [][NextClientSpec]_vars

\* The locks: MaxTasks goroutines, each running one operation of the server
\* (every interrupt path of the source among them), seen by the locks they
\* take and release.
InitLock ==
    /\ InitState
    /\ NoSubscribers
    /\ observing = FALSE
    /\ req \in Requests(1, {"ws"})
    /\ intr \in Interrupts({"ws"})

TaskStep(x) == TaskAcquire(x) \/ TaskRelease(x) \/ TaskCall(x)

NextLock ==
    \/ \E x \in Tasks, op \in AllInterruptOps \cup OtherOps : TaskStart(x, op)
    \/ \E x \in Tasks : TaskStep(x)

LockSpec == InitLock /\ [][NextLock]_vars

\* Who is written the output: one run over WebSocket, for a session or
\* without a session id, whose process prints lines, and a second connection
\* that subscribes to this or to another session at any moment.
InitConf ==
    /\ InitState
    /\ NoSubscribers
    /\ observing = TRUE
    /\ req \in {[q EXCEPT ![1].sess = s] :
                   q \in Requests(1, {"ws"}), s \in {"s1", ""}}
    /\ intr \in Interrupts({"ws"})

NextConf ==
    \/ \E r \in Runs : WsRunStep(r) \/ ProcEmit(r) \/ ProcExit(r, 0)
    \/ \E k \in RplKeys : ReplayPrompt(k) \/ ReplayChunk(k)
    \/ \E c \in Viewers, s \in SessionIds : ViewerSubscribe(c, s)

ConfSpec == InitConf /\ [][NextConf]_vars

\* Interrupts with an empty session id, from either entry point, against a
\* run over WebSocket of a session or started without a session id.
InitEmpty ==
    /\ InitState
    /\ NoSubscribers
    /\ observing = TRUE
    /\ req \in {[q EXCEPT ![1].sess = s] :
                   q \in Requests(1, {"ws"}), s \in {"s1", ""}}
    /\ intr \in {[j EXCEPT ![1].sess = ""] : j \in Interrupts({"ws", "http"})}

NextEmpty ==
    \/ \E r \in Runs : WsRunStep(r) \/ ProcEmit(r) \/ ProcExit(r, 0)
    \/ \E i \in Ints : IntStep(i) \/ IntRefuse(i)

EmptySpec == InitEmpty /\ [][NextEmpty]_vars

\* One chat request over HTTP without the step to the next request
OneRunStep(r) ==
    \/ StartRun(r) \/ ISLGet(r) \/ SpawnOk(r) \/ NextID(r) \/ Register(r)
    \/ SetLoading(r) \/ SetProcessID(r) \/ ProcExit(r, 0) \/ Wait(r)
    \/ CleanupUnregister(r) \/ CleanupLoading(r) \/ CleanupProcessID(r)

\* The readers of the ledger: GET /state and a client of /state/subscribe,
\* against one chat request over HTTP and an interrupt.
InitRead ==
    /\ InitState
    /\ Subscribers(1)
    /\ observing = FALSE
    /\ req \in Requests(1, {"http"})
    /\ intr \in Interrupts({"ws", "http"})

NextRead ==
    \/ \E r \in Runs : OneRunStep(r)
    \/ \E i \in Ints : IntStep(i)
    \/ \E g \in Readers : ReaderStep(g)
    \/ \E k \in StateClients : ClientStep(k)
    \/ BroadcasterStep

ReadSpec == InitRead /\ [][NextRead]_vars

\* A client of /state/subscribe and what it is written, against one chat
\* request over HTTP (four ledger changes, each with its broadcast).
InitSubscribe ==
    /\ InitState
    /\ Subscribers(1)
    /\ observing = TRUE
    /\ req \in Requests(1, {"http"})
    /\ intr \in Interrupts({"ws"})

NextSubscribe ==
    \/ \E r \in Runs : OneRunStep(r)
    \/ \E k \in StateClients : ClientStep(k)
    \/ BroadcasterStep

SubscribeSpec == InitSubscribe /\ [][NextSubscribe]_vars

\* ------------------------------------------------------------------ claims

\* the processes registered for a session that are alive
RunningFor(s) ==
    {p \in DOMAIN activeProcesses :
        /\ activeProcesses[p].SessionID = s
        /\ proc[activeProcesses[p].Cmd].state = "running"}

\* C1. Single-flight: at no instant are two processes registered and running
\* for the same session, whatever the interleaving of the start requests.
SingleFlight == \A s \in SessionIds : Cardinality(RunningFor(s)) <= 1

\* the positions of a handler whose IsSessionLoading call has returned
CheckReturned(r) ==
    pc[r] \notin {"idle", "isl_get", "isl_rdl", "isl_rdp", "isl_fix1",
                  "isl_fix2", "isl_ret"}

\* C2. Busy rejection: a request that arrives while a run of its session is
\* Running, and whose check returns while that run is still Running, is
\* rejected as busy; a rejected request has no process id and no process.
BusyRejection ==
    \A r \in Runs :
        /\ (CheckReturned(r) /\ \E a \in loc[r].atIssue : Running(a))
              => loc[r].result = "busy"
        /\ loc[r].result = "busy"
              => loc[r].pid = NoPid /\ proc[r].state = "none"

\* the numbers of the data chunks a connection's peer has received, in order
RECURSIVE Chunks(_)
Chunks(msgs) ==
    IF msgs = <<>> THEN <<>>
    ELSE IF Head(msgs)[1] = "data" THEN <<Head(msgs)[2][2]>> \o Chunks(Tail(msgs))
    ELSE Chunks(Tail(msgs))

\* C3. Output ordering: what a subscriber has received of a run's output is
\* the backlog from its first chunk on, then the live chunks, without a gap
\* and without a chunk coming before an earlier one (a repeated chunk is the
\* matter of C4).
OutputOrdering ==
    \A c \in Conns :
        LET ch == Chunks(recv[c])
        IN  /\ ch # <<>> => ch[1] = 1
            /\ \A i \in 1..(Len(ch) - 1) : ch[i + 1] \in {ch[i], ch[i] + 1}

\* C4. No duplication: no chunk is delivered twice to the same subscriber.
NoDuplication ==
    \A c \in Conns :
        LET ch == Chunks(recv[c])
        IN  \A i, j \in 1..Len(ch) : i # j => ch[i] # ch[j]

\* C5. Drop-on-full: no Broadcast is ever held up in the write to a peer that
\* does not read; the publisher goes on to the other subscribers.
PublishNeverBlocks ==
    \A r \in Runs : \A c \in bc[r]["out"].cur : ~stalled[c]

\* what IsSessionLoading answers when nothing else runs during the call
LedgerReportsBusy(s) ==
    /\ s \in DOMAIN stateSessions
    /\ stateSessions[s].IsLoading
    /\ ~IsStale(stateSessions[s].ProcessID, DOMAIN activeProcesses)

\* C6. No session stays busy forever: once a run has marked its session busy,
\* there comes a state where the ledger reports the session idle and the
\* process of the run is out of the registry.
EventuallyIdle ==
    \A r \in Runs :
        (pc[r] = "setpid") ~>
            (/\ ~LedgerReportsBusy(req[r].sess)
             /\ loc[r].pid \notin DOMAIN activeProcesses)

\* getState does its locked section in this step
ReconcileStep(g) == gs[g].pc = "rec" /\ gs'[g].pc = "copy"

\* C7. Reconciliation: the locked section of getState removes every record
\* whose owner is not in the registry snapshot the call took (so a record
\* whose process left the registry before the call is gone after it, with no
\* setter called), and leaves every other record as it was.
Reconciliation ==
    [][\A g \in Readers : ReconcileStep(g) =>
          \A s \in DOMAIN stateSessions :
              IF /\ stateSessions[s].ProcessID # NoPid
                 /\ stateSessions[s].ProcessID \notin gs[g].snap
              THEN s \notin DOMAIN stateSessions'
              ELSE /\ s \in DOMAIN stateSessions'
                   /\ stateSessions'[s] = stateSessions[s]]_vars

\* getState has just cleared the record of a session whose process was taken
\* out of the registry by InterruptChat, while the handler of the run is still
\* in cmd.Wait() and has called no setter
ReconciledOrphan ==
    \E g \in Readers, r \in Runs, i \in Ints :
        /\ gs[g].pc = "copy"
        /\ gs[g].cleaned = {req[r].sess}
        /\ req[r].sess \notin DOMAIN stateSessions
        /\ pc[r] = "wait"
        /\ loc[r].pid \notin DOMAIN activeProcesses
        /\ intr[i].kind = "http" /\ intr[i].result = "ok"
        /\ intr[i].pid = loc[r].pid

\* getState returns its copy in this step
ObserveStep(g) == gs[g].pc = "copy" /\ gs'[g].pc = "idle"

\* C8. Ledger invariant: in the state getState returns (it has reconciled
\* before), every busy record has an owner and that owner is registered.
BusyHasOwner ==
    [][\A g \in Readers : ObserveStep(g) =>
          \A s \in DOMAIN gs'[g].view :
              gs'[g].view[s].IsLoading =>
                  /\ gs'[g].view[s].ProcessID # NoPid
                  /\ gs'[g].view[s].ProcessID \in DOMAIN activeProcesses]_vars

\* an interrupt handler returns in this step
IntReturns(i, result) ==
    intr[i].pc # "done" /\ intr'[i].pc = "done" /\ intr'[i].result = result

\* C9. Interrupt: when an interrupt that found a run of S returns, the process
\* is dead and unregistered, the ledger reports S idle, and no process of S
\* that was registered at the lookup is left for a second interrupt to find.
InterruptIdle ==
    [][\A i \in Ints :
          /\ IntReturns(i, "ok") =>
                /\ proc'[intr[i].cmd].state # "running"
                /\ intr[i].seen \cap DOMAIN activeProcesses' = {}
                /\ ~LedgerReportsBusy(intr[i].sess)'
          /\ intr[i].pc = "kill" => intr'[i].result # "error"]_vars

\* C10. Interrupt against natural completion: no interrupt ends in an error,
\* and once the handlers and the interrupts of S have all returned, S has no
\* ledger record and no registry entry.
InterruptRaceSafe ==
    /\ \A i \in Ints : intr[i].result # "error"
    /\ \A s \in SessionIds :
          (/\ \A r \in Runs : req[r].sess = s => pc[r] \in {"idle", "done"}
           /\ \A i \in Ints : intr[i].sess = s => intr[i].pc = "done")
          => /\ s \notin DOMAIN stateSessions
             /\ \A p \in DOMAIN activeProcesses :
                   activeProcesses[p].SessionID # s

\* C11. Run completion as seen by viewers: on every connection the terminal
\* event of the run comes once and after the run's data chunks (nothing of
\* the run, live or replayed, follows it), and once the handler of the run
\* has returned the ledger has no busy record of the session.
CompletionSeen ==
    /\ \A c \in Conns : \A i, j \in 1..Len(recv[c]) :
          (i < j /\ recv[c][i][1] = "done") => recv[c][j][1] \notin {"data", "done"}
    /\ \A r \in Runs : (pc[r] = "done" /\ loc[r].result = "started")
          => ~LedgerReportsBusy(req[r].sess)

\* the two calls by which the cleanup and the interrupt set a session idle
setIdle(S, s) == setSessionProcessID(setSessionLoading(S, s, FALSE), s, NoPid)

\* C12. Idempotent cleanup: in every state, unregistering any id twice leaves
\* the registry as the first call left it, and setting any session idle twice
\* leaves the ledger's records as the first time left them.
IdempotentCleanup ==
    /\ \A id \in Runs :
          Remove(unregisterProcess(id), id) = unregisterProcess(id)
    /\ \A s \in SessionIds \cup {""} :
          setIdle(setIdle(stateSessions, s), s) = setIdle(stateSessions, s)

\* a run that was interrupted over WebSocket has returned: the interrupt and
\* the deferred cleanup have both unregistered its id and set its session idle
CleanedTwice ==
    \E r \in Runs, i \in Ints :
        /\ pc[r] = "done" /\ loc[r].result = "started"
        /\ intr[i].kind = "ws" /\ intr[i].result = "ok"
        /\ intr[i].pid = loc[r].pid

\* C13. Stream failure: a run whose stdout reader has failed while the process
\* was alive is not reported as done to any subscriber (its terminal event is
\* an error), and once its handler has returned the ledger is idle again.
StreamFailureReported ==
    \A r \in Runs : rd[r].failed =>
        /\ \A c \in Conns : \A i \in 1..Len(recv[c]) : recv[c][i] # <<"done", r>>
        /\ pc[r] = "done" => ~LedgerReportsBusy(req[r].sess)

\* the handler of r takes a step on its spawn-failure path
SpawnFailStep(r) == pc'[r] # pc[r] /\ loc'[r].result = "spawnfail"

\* C14. Spawn failure: the steps of a handler whose spawn failed leave the
\* registry, the id counter, the ledger and the hub as they are; the handler
\* has no process id and no process and only has its error left to send, and
\* a WebSocket requester has received that error when the handler returns.
SpawnFailure ==
    [][\A r \in Runs : SpawnFailStep(r) =>
          /\ UNCHANGED <<registryVars, stateSessions, hubVars>>
          /\ loc'[r].pid = NoPid /\ proc'[r].state = "none"
          /\ pc'[r] \in {"errsend", "done"}
          /\ (pc'[r] = "done" /\ IsWS(r)) =>
                \E i \in 1..Len(recv'[req[r].conn]) :
                    recv'[req[r].conn][i] = <<"error", r>>]_vars

\* a request has been answered with a spawn failure while another run of the
\* session is Running
SpawnFailed ==
    \E r, a \in Runs :
        /\ pc[r] = "done" /\ loc[r].result = "spawnfail"
        /\ a # r /\ Running(a)

\* a broadcast delivers the update it marshalled in this step
DeliverStep(i) ==
    i \in 1..Len(bcastData) /\ bcastData' = RemoveAt(bcastData, i)
                            /\ bcastPending' = bcastPending

\* C15. Change Broadcaster delivery: no queue ever holds more than ten updates;
\* a broadcast that has marshalled its update can always deliver it, whatever
\* the queues hold; and its delivery appends the update to every queue that
\* has room and leaves the full queues as they are.
BroadcastDelivery ==
    [][/\ \A k \in DOMAIN clients' : Len(clients'[k]) <= 10
       /\ \A i \in 1..Len(bcastData) : ENABLED BroadcastDeliver(i)
       /\ \A i \in 1..Len(bcastData) : DeliverStep(i) =>
             /\ DOMAIN clients' = DOMAIN clients
             /\ \A k \in DOMAIN clients :
                   clients'[k] = IF Len(clients[k]) < 10
                                 THEN Append(clients[k], bcastData[i])
                                 ELSE clients[k]]_vars

\* an update has been dropped for a subscriber whose queue is full and has
\* been queued for another one, who is reading
DroppedForOne ==
    \E k, j \in DOMAIN clients :
        /\ sse[k].dropped /\ Len(clients[k]) = 10
        /\ ~sse[j].dropped /\ sse[j].pc = "loop" /\ clients[j] # <<>>

\* SubscribeState marshals its initial snapshot in this step
SnapshotStep(k) == sse[k].pc = "added" /\ sse'[k].pc = "loop"

\* the busy records of a ledger state whose owner is in none of the registries
Unreconciled(S, registries) ==
    {s \in DOMAIN S : /\ S[s].IsLoading
                      /\ S[s].ProcessID # NoPid
                      /\ S[s].ProcessID \notin registries}

\* C16. Reads reconcile first: the state GetState returns and the initial
\* snapshot of SubscribeState hold no busy record whose owner was out of the
\* registry when the read started (and is not registered at the answer: a run
\* that started during the read is not meant).
ReadsReconciled ==
    [][/\ \A g \in Readers : ObserveStep(g) =>
             Unreconciled(gs'[g].view, gs[g].snap \cup DOMAIN activeProcesses) = {}
       /\ \A k \in StateClients : SnapshotStep(k) =>
             Unreconciled(stateSessions, sse[k].reg \cup DOMAIN activeProcesses) = {}
      ]_vars

\* the ledger states a client has been given: written to it or in its queue
Given(k) ==
    {sse[k].out[i][2] : i \in 1..Len(sse[k].out)}
        \cup {clients[k][i] : i \in 1..Len(clients[k])}

\* C17. A ledger subscriber is written one full snapshot first and updates
\* after it; and when every broadcast has been delivered and none was dropped
\* for the subscriber, the current ledger is among what it has been given (no
\* change made after the snapshot is missing).
SnapshotFirst ==
    \A k \in StateClients :
        /\ \A i \in 1..Len(sse[k].out) :
              (sse[k].out[i][1] = "snapshot") <=> (i = 1)
        /\ (/\ sse[k].pc = "loop"
            /\ bcastPending = 0 /\ bcastData = <<>>
            /\ ~sse[k].dropped)
              => stateSessions \in Given(k)

\* a subscriber has been written its snapshot and, after it, an update with a
\* ledger change made after the snapshot was taken
UpdatedAfterSnapshot ==
    \E k \in StateClients :
        /\ Len(sse[k].out) >= 2
        /\ sse[k].out[Len(sse[k].out)][2] # sse[k].out[1][2]
        /\ bcastPending = 0 /\ bcastData = <<>>
        /\ stateSessions = sse[k].out[Len(sse[k].out)][2]

\* C18. Process ids: every id handed out is greater than every id handed out
\* before (those held by the other handlers and those in the registry
\* included), so no two handlers hold the same id; and a registration leaves
\* the entries there as they are and adds one under the id of its handler.
ProcessIds ==
    [][/\ \A r \in Runs : (loc'[r].pid # loc[r].pid /\ loc'[r].pid # NoPid) =>
             /\ loc'[r].pid > processCounter
             /\ processCounter' = loc'[r].pid
             /\ \A a \in Runs : loc[a].pid < loc'[r].pid
             /\ \A p \in DOMAIN activeProcesses : p < loc'[r].pid
       /\ \A r, a \in Runs :
             (r # a /\ loc'[r].pid # NoPid) => loc'[r].pid # loc'[a].pid
       /\ \A p \in DOMAIN activeProcesses' :
             IF p \in DOMAIN activeProcesses
             THEN activeProcesses'[p] = activeProcesses[p]
             ELSE \E r \in Runs : /\ pc[r] = "register" /\ loc[r].pid = p
                                  /\ activeProcesses'[p].Cmd = r]_vars

\* two handlers hold the ids they were given at the same time, before either
\* has registered its own
ConcurrentIds ==
    \E r, a \in Runs :
        /\ r # a /\ pc[r] = "register" /\ pc[a] = "register"
        /\ loc[r].pid # loc[a].pid

\* C19. Exit-code interpretation: the terminal event a run has published is
\* done when its process ended with 0, -1, 130 or 137 and error when it ended
\* with any other exit code; the outcome computed for a reaped process agrees
\* with that, and a wait failure that is not an exit status gives error.
ExitInterpretation ==
    /\ \A r \in Runs, c \in Conns : \A i \in 1..Len(recv[c]) :
          /\ recv[c][i] = <<"done", r>> => proc[r].code \in {0, -1, 130, 137}
          /\ recv[c][i] = <<"error", r>> => proc[r].code \notin {0, -1, 130, 137}
    /\ \A r \in Runs : proc[r].state = "reaped" =>
          (TerminalEvent(r) = "done" <=> proc[r].code \in {0, -1, 130, 137})
    /\ Interpret([kind |-> "other", code |-> 0]) = "error"

\* no run of the session is in flight: every handler for it has either not
\* started or has returned from its deferred cleanup
NoRunInFlight(s) == \A r \in Runs : req[r].sess = s => pc[r] \in {"idle", "done"}

\* C20. Replay buffers are scoped to a run: whenever no run of a session is in
\* flight the hub holds no pending prompt and no accumulated chunk for it, and
\* a viewer that subscribes to it then is given nothing to replay.
ReplayScoped ==
    /\ [](\A s \in SessionIds : NoRunInFlight(s) =>
            /\ s \notin DOMAIN pendingPrompts
            /\ s \in DOMAIN accumulatedContent => accumulatedContent[s] = <<>>)
    /\ [][\A c \in Conns, s \in SessionIds :
            (sub[c].st = "idle" /\ sub'[c].st = "subscribed"
               /\ c \in hubSessions'[s] /\ NoRunInFlight(s))
            => /\ rpl'[<<"sub", c>>].prompt = <<>>
               /\ rpl'[<<"sub", c>>].chunks = <<>>]_vars

\* a viewer subscribes after a run that printed lines has returned, and
\* no other run of the session is in flight
SubscribedBetweenRuns ==
    \E c \in Viewers, s \in SessionIds, r \in Runs :
        /\ sub[c].st = "subscribed" /\ c \in hubSessions[s]
        /\ req[r].sess = s /\ pc[r] = "done" /\ loc[r].result = "started"
        /\ rd[r].nread > 0
        /\ NoRunInFlight(s)
        /\ rpl[<<"sub", c>>].chunks = <<>> /\ rpl[<<"sub", c>>].prompt = <<>>

\* the hub has nothing for the session: no subscriber, no pending prompt and
\* no accumulated chunk
NoStream(s) ==
    /\ hubSessions[s] = {}
    /\ s \notin DOMAIN pendingPrompts
    /\ s \notin DOMAIN accumulatedContent

\* the stdout reader of r takes a line and publishes it
PublishStep(r) == rd'[r].nread = rd[r].nread + 1

\* C21. Publishing a chunk to a session for which the hub has nothing leaves
\* the hub as it is (no backlog entry is created) and delivers nothing, and
\* the broadcast of the chunk has no connection to write to.
PublishNoStream ==
    [][\A r \in Runs :
          (PublishStep(r) /\ req[r].sess # "" /\ NoStream(req[r].sess))
          => /\ hubVars' = hubVars
             /\ recv' = recv]_vars

\* C22. Subscriber lifetime: a connection that has closed is in the subscriber
\* set of no session of the hub, and a client of /state/subscribe whose
\* request has ended is not among the clients of the Change Broadcaster.
ClosedNotSubscribed ==
    /\ \A c \in Conns : sub[c].st = "closed" =>
          \A s \in SessionIds : c \notin hubSessions[s]
    /\ \A k \in StateClients : sse[k].pc = "gone" => k \notin DOMAIN clients

\* what the registry, the ledger and the hub hold for one session
SessionView(t) ==
    <<[p \in {q \in DOMAIN activeProcesses : activeProcesses[q].SessionID = t}
          |-> activeProcesses[p]],
      IF t \in DOMAIN stateSessions THEN <<stateSessions[t]>> ELSE <<>>,
      IF t \in DOMAIN pendingPrompts THEN <<pendingPrompts[t]>> ELSE <<>>,
      IF t \in DOMAIN accumulatedContent THEN accumulatedContent[t] ELSE <<>>,
      hubSessions[t]>>

\* a handler, reader or broadcast of run r takes a step
RunMoves(r) == pc'[r] # pc[r] \/ loc'[r] # loc[r] \/ rd'[r] # rd[r] \/ bc'[r] # bc[r]

\* C23. Cross-session isolation: a step of a run of session s, and a step of
\* an interrupt of s, leave what the registry, the ledger and the hub hold for
\* every other session as it is.
Isolation ==
    [][\A s \in SessionIds :
          (\/ \E r \in Runs : req[r].sess = s /\ RunMoves(r)
           \/ \E i \in Ints : intr[i].sess = s /\ intr'[i] # intr[i])
          => \A t \in SessionIds \ {s} : SessionView(t)' = SessionView(t)]_vars

\* a run is cleaning up after an interrupt of its session while the other
\* session has a registered process, a busy record, a prompt and a backlog
IsolatedCleanup ==
    \E r, a \in Runs, i \in Ints :
        /\ req[r].sess # req[a].sess
        /\ intr[i].sess = req[r].sess /\ intr[i].result = "ok"
        /\ pc[r] = "c_unreg"
        /\ loc[a].pid \in DOMAIN activeProcesses
        /\ req[a].sess \in DOMAIN stateSessions
        /\ req[a].sess \in DOMAIN pendingPrompts
        /\ req[a].sess \in DOMAIN accumulatedContent

\* the lines the process of r has written, in emission order
Emitted(r) == [n \in 1..proc[r].emitted |-> <<r, n>>]

\* the data chunks a connection has been written, in order
DataOf(c) == SelectSeq(recv[c], LAMBDA m : m[1] = "data")

\* C24. One line, one chunk: when both readers of a run have returned and its
\* cleanup has not begun, the backlog of its session holds one chunk for each
\* line the process wrote, in emission order, and the connection of the run
\* has been written exactly these chunks as data, once each and in order.
OneLineOneChunk ==
    \A r \in Runs : (pc[r] = "final" /\ bc[r]["main"].phase = "idle") =>
        /\ IF proc[r].emitted = 0
           THEN req[r].sess \notin DOMAIN accumulatedContent
           ELSE /\ req[r].sess \in DOMAIN accumulatedContent
                /\ accumulatedContent[req[r].sess] = Emitted(r)
        /\ DataOf(req[r].conn) = [n \in 1..proc[r].emitted |-> <<"data", <<r, n>>>>]

\* the stderr lines a connection has been written, in order
StderrOf(c) == SelectSeq(recv[c], LAMBDA m : m[1] = "stderr")

\* C25. Stderr lines: when the handler of a run has returned, every connection
\* subscribed to its session since before the run has been written each line
\* the stderr reader took, tagged "stderr" and in order; no stderr line is
\* written as data, and the backlog holds none.
StderrPublished ==
    \A r \in Runs : (pc[r] = "done" /\ loc[r].result = "started") =>
        \A c \in hubSessions[req[r].sess] :
            /\ StderrOf(c) = [n \in 1..rd[r].eread |-> <<"stderr", <<r, n>>>>]
            /\ Len(DataOf(c)) <= proc[r].emitted

\* C26. Session:Tab is 1:1: no two tabs hold the same non-empty session id, and
\* a setTabSession for a session that another tab holds returns its error and
\* leaves the tabs as they are.
OneTabPerSession ==
    /\ [](\A i, j \in DOMAIN tabs.Tabs :
            (i # j /\ tabs.Tabs[i].SessionID = tabs.Tabs[j].SessionID)
            => tabs.Tabs[i].SessionID = "")
    /\ [][(/\ tabs' # tabs
           /\ tabs'.last.op = "set"
           /\ tabs'.last.sessionID # ""
           /\ \E i \in DOMAIN tabs.Tabs :
                 /\ tabs.Tabs[i].ID # tabs'.last.tabID
                 /\ tabs.Tabs[i].SessionID = tabs'.last.sessionID)
          => (tabs'.last.err /\ tabs'.Tabs = tabs.Tabs)]_vars

\* a setTabSession has been refused: another tab holds the session
SessionRefused ==
    /\ tabs.last.op = "set" /\ tabs.last.err
    /\ Len(tabs.Tabs) >= 2
    /\ \E i \in DOMAIN tabs.Tabs :
          /\ tabs.Tabs[i].ID # tabs.last.tabID
          /\ tabs.Tabs[i].SessionID = tabs.last.sessionID
    /\ \E i \in DOMAIN tabs.Tabs : tabs.Tabs[i].ID = tabs.last.tabID

\* nothing is in progress: every request sent has been handled to its end,
\* the client has handled every message written to it, no timer is set, and
\* the client's view of the ledger is up to date
Quiet ==
    /\ \A r \in Runs : pc[r] = (IF r <= Len(cl.sent) THEN "done" ELSE "idle")
    /\ \A k \in RplKeys : rpl[k].prompt = <<>> /\ rpl[k].chunks = <<>>
    /\ \A c \in Conns : cl.seen[c] = Len(recv[c])
    /\ cl.timer = <<>>
    /\ cl.loading = (/\ TabSession \in DOMAIN stateSessions
                     /\ stateSessions[TabSession].IsLoading)

\* C27. Client message queue: once nothing is in progress any more, no message
\* is left in the queue, and the messages the user entered have been sent to
\* the server once each and in entry order.
QueueFlushed ==
    Quiet => /\ cl.queue = <<>>
             /\ Join(cl.sent) = [m \in 1..cl.typed |-> m]

\* the ledger names a process of the registry as the owner of session s
Owner(s) == IF s \in DOMAIN stateSessions THEN stateSessions[s].ProcessID
            ELSE NoPid
OwnerRegistered(s) == Owner(s) # NoPid /\ Owner(s) \in DOMAIN activeProcesses

\* this step resets the busy flag or the owner of s, or clears the pending
\* prompt or the backlog of s
ClearsRecord(s) ==
    \/ /\ stateSessions[s].IsLoading
       /\ (s \in DOMAIN stateSessions' => ~stateSessions'[s].IsLoading)
    \/ s \in DOMAIN stateSessions' => stateSessions'[s].ProcessID = NoPid
    \/ s \in DOMAIN pendingPrompts /\ s \notin DOMAIN pendingPrompts'
    \/ s \in DOMAIN accumulatedContent /\ s \notin DOMAIN accumulatedContent'

\* this step is a step of the run, or of an interrupt, of process p
StepOnBehalfOf(p) ==
    \/ \E r \in Runs : loc[r].pid = p /\ pc'[r] # pc[r]
    \/ \E i \in Ints : intr[i].pid = p /\ intr'[i] # intr[i]

\* C28. A ledger record is cleared only on behalf of the process that owns it:
\* while the owner of session S is a process of the registry, no step of
\* another run's cleanup, of an interrupt of another process or of
\* IsSessionLoading resets the busy flag or owner of S or clears the pending
\* prompt or backlog of S.
ClearedByOwnerOnly ==
    [][\A s \in SessionIds :
          OwnerRegistered(s) /\ ClearsRecord(s) => StepOnBehalfOf(Owner(s))]_vars

\* connection c has been written the terminal event of the started run r
SeenTerminal(c, r) ==
    /\ loc[r].pid # NoPid
    /\ \E i \in 1..Len(recv[c]) :
          recv[c][i] \in {<<"done", r>>, <<"error", r>>}

\* C29. When a subscriber observes the terminal event of a run of session S,
\* the ledger no longer reports S busy on account of that run.
IdleAtTerminalEvent ==
    \A c \in Conns, r \in Runs :
        SeenTerminal(c, r) =>
            ~(LedgerReportsBusy(req[r].sess) /\ Owner(req[r].sess) = loc[r].pid)

\* the ledger has stopped changing and every broadcast has been delivered to
\* and read by subscriber k, none of them dropped for k
AllRead(k) ==
    /\ \A r \in Runs : pc[r] \in {"idle", "done"}
    /\ bcastPending = 0 /\ bcastData = <<>>
    /\ sse[k].pc = "loop" /\ ~sse[k].dropped
    /\ clients[k] = <<>> /\ sse[k].out # <<>>

\* C30. Ledger snapshots reach a subscriber in the order of the mutations:
\* once the ledger has stopped changing and the subscriber, whose queue never
\* overflowed, has read everything, the last snapshot it was written is the
\* current ledger state.
LastSnapshotCurrent ==
    \A k \in StateClients :
        AllRead(k) => sse[k].out[Len(sse[k].out)][2] = stateSessions

\* this step is the replay goroutine of Subscribe k writing its next chunk
ReplaysChunk(k) ==
    /\ rpl[k].chunks # <<>>
    /\ rpl'[k] = [rpl[k] EXCEPT !.chunks = Tail(@)]
    /\ recv'[rpl[k].conn] =
          Append(recv[rpl[k].conn], <<"data", Head(rpl[k].chunks)>>)

\* C31. On Subscribe to a session with a pending prompt and a non-empty
\* backlog, the new subscriber is written the prompt event before every
\* replayed chunk: no replayed chunk is written while the prompt of the same
\* Subscribe is still to be written.
PromptBeforeBacklog ==
    [][\A k \in RplKeys : ReplaysChunk(k) => rpl[k].prompt = <<>>]_vars

\* how many times connection c has been written the prompt event of run r
PromptsSeen(c, r) ==
    Cardinality({i \in 1..Len(recv[c]) : recv[c][i] = <<"userPrompt", r>>})

\* C32. Every viewer of a run with a non-empty prompt observes the prompt
\* event of the run exactly once: no connection is written it twice, and the
\* initiator of a run that has returned has been written it.
PromptExactlyOnce ==
    \A c \in Conns, r \in Runs :
        /\ PromptsSeen(c, r) <= 1
        /\ (pc[r] = "done" /\ loc[r].pid # NoPid /\ req[r].prompt
               /\ c = req[r].conn) => PromptsSeen(c, r) = 1

\* the goroutine is at the kill or inside unregisterProcess
InKillOrUnregister(x) ==
    /\ TaskRunning(x)
    /\ \/ NextOp(x)[1] = "call"
       \/ /\ task[x].at > 1
          /\ Program(task[x].op)[task[x].at - 1] =
                <<"call", "unregisterProcess">>

\* C33. Interrupt lock discipline: in every interrupt path the registry lock
\* taken for the lookup has been released when the process is killed and when
\* unregisterProcess is called.
KillOutsideLock ==
    \A x \in Tasks :
        (task[x].op \in AllInterruptOps /\ InKillOrUnregister(x))
            => <<"processLock", "r">> \notin task[x].held

\* the locks a goroutine holds
HeldLocks(x) == {h[1] : h \in task[x].held}

\* some goroutine is in an operation and every such goroutine waits in Lock
\* or RLock for a lock it cannot get
LockedUp ==
    /\ \E x \in Tasks : TaskRunning(x)
    /\ \A x \in Tasks : TaskRunning(x) =>
          NextOp(x)[1] \in {"Lock", "RLock"} /\ ~CanAcquire(x)

\* C34. Lock discipline and deadlock freedom: no goroutine holds two of the
\* registry lock, the ledger lock, the client lock and the hub lock at the
\* same time, and no interleaving of the operations reaches a state where
\* the goroutines wait for locks forever.
LockDiscipline ==
    /\ \A x \in Tasks : Cardinality(HeldLocks(x)) <= 1
    /\ ~LockedUp

\* the process of run r has exited and been reaped, and is still listed in
\* the registry
FinishedListed(r) ==
    /\ proc[r].state = "reaped"
    /\ loc[r].pid # NoPid /\ loc[r].pid \in DOMAIN activeProcesses

\* the ledger shows session s idle
LedgerIdle(s) == s \notin DOMAIN stateSessions \/ ~stateSessions[s].IsLoading

\* C35. Completion order: the completion path unregisters the process
\* before it marks the session idle, and marks it idle before it clears the
\* pending prompt and backlog; so no state shows the session idle in the
\* ledger while the finished process is still listed in the registry, and
\* none shows the hub cleared by the cleanup while the ledger is still busy.
CompletionOrder ==
    \A r \in Runs : req[r].sess # "" =>
        /\ FinishedListed(r) => ~LedgerIdle(req[r].sess)
        /\ pc[r] \in {"c_cac", "c_unreg"} => LedgerIdle(req[r].sess)

\* C36. Ledger garbage collection: after every completed ledger operation
\* (setSessionLoading, setSessionProcessID, the reconciliation of getState)
\* the ledger holds no record that is idle with no owner.
LedgerCollected ==
    \A s \in DOMAIN stateSessions :
        stateSessions[s].IsLoading \/ stateSessions[s].ProcessID # NoPid

\* a run has marked its session busy, named its owner, and its cleanup has
\* returned the record to idle with no owner: the record is gone
RecordCollected ==
    \E r \in Runs :
        /\ pc[r] = "done" /\ loc[r].pid # NoPid /\ req[r].sess # ""
        /\ req[r].sess \notin DOMAIN stateSessions

\* the run a message written to a connection belongs to
RunOf(m) == IF m[1] \in {"data", "stderr"} THEN m[2][1] ELSE m[2]

\* this step writes a message to connection c
WrittenTo(c) == Len(recv'[c]) > Len(recv[c])

\* C37. Output confidentiality between sessions: a chunk, prompt or terminal
\* event of a run of session S is written only to the connection that started
\* the run and to connections subscribed to S at that moment; the output of
\* a run without a session id is written to its own connection only.
Confidential ==
    [][\A c \in Conns : WrittenTo(c) =>
          LET r == RunOf(recv'[c][Len(recv'[c])])
          IN  \/ c = req[r].conn
              \/ req[r].sess # "" /\ c \in hubSessions[req[r].sess]]_vars

\* a run has written output to its own connection while the other connection
\* is subscribed to a session that is not the session of the run, and has
\* been written nothing
OutputKeptFromOthers ==
    \E r \in Runs, c \in Viewers :
        /\ \E i \in 1..Len(recv[req[r].conn]) :
              recv[req[r].conn][i][1] = "data"
        /\ pc[r] = "done"
        /\ sub[c].st = "subscribed" /\ req[r].sess \notin sub[c].sessions
        /\ recv[c] = <<>>

\* C38. An interrupt request with an empty session id is refused and kills or
\* unregisters no process, on both entry points: it never takes a process
\* from the registry, and it does not end as a completed interrupt.
EmptyInterruptRefused ==
    \A i \in Ints : intr[i].sess = "" =>
        /\ intr[i].pid = NoPid
        /\ intr[i].pc \notin {"kill", "unreg"}
        /\ intr[i].result # "ok"

====
